---- MODULE Spec2Model ----
(***************************************************************************)
(* A model of the WCPS expression tree of wcps/model.py: the heap of       *)
(* WCPSExpr objects (operands, parent, builder fields), the public         *)
(* constructors and builder methods, and the rendering done by __str__.    *)
(*                                                                         *)
(* Python values are records [t, v]: t is the Python type, v the value.    *)
(* A WCPSExpr object is a position in the heap `nodes`.  Rendered text is  *)
(* a sequence of the string pieces that Python concatenates.               *)
(***************************************************************************)
EXTENDS Integers, Sequences, FiniteSets, TLC

VARIABLES
    nodes,   \* the heap: nodes[i] is the i-th WCPSExpr object created
    last     \* the last public call: what was called, on what, and its outcome

vars == <<nodes, last>>

-----------------------------------------------------------------------------
(* Bounds of the model *)

\* at most this many objects are created on the heap
MaxNodes == 3

\* add_operand is called on an object only while it has fewer operands
MaxOperands == 2

\* a Switch is given at most this many case expressions
MaxBranches == 2

\* at most this many Switch objects are created
MaxSwitches == 1

\* the heap of a Scale and its axes holds at most this many objects
MaxScaleNodes == 5

\* a Scale is given at most this many operands
MaxScaleOperands == 3

\* the heap of the calls of Axis.get_axis_list holds at most this many objects
MaxAxesNodes == 7

\* the heap of a Reproject and its axes holds at most this many objects
MaxReprojectNodes == 7

\* at most this many Reproject objects are created
MaxReprojects == 1

\* a Reproject is given at most this many operands
MaxReprojectOperands == 4

\* the heap of the AxisIter objects holds at most this many objects
MaxIterNodes == 3

\* an AxisIter is given at most this many operands
MaxIterOperands == 2

\* the heap of a Condense or a Coverage, its iterators and its clauses holds
\* at most this many objects
MaxCondenseNodes == 4

\* a Condense or a Coverage is over at most this many datacubes, which are
\* the first objects made
MaxCubes == 1

\* at most this many AxisIter objects are made for a Condense or a Coverage
MaxIters == 2

\* a Condense or a Coverage is given at most this many operands
MaxCondenseOperands == 4

\* the heap of the operator and function objects holds at most this many
\* objects
MaxOpNodes == 4

\* the datacubes and the iterators of the trees rendered for their prologue
MaxPrologueCubes == 2
MaxPrologueIters == 1

-----------------------------------------------------------------------------
(* Python values *)

VNone == [t |-> "None", v |-> 0]
\* an attribute that __init__ has not assigned yet
VUnset == [t |-> "unset", v |-> 0]
VInt(i) == [t |-> "int", v |-> i]
VStr(s) == [t |-> "str", v |-> s]
VBool(b) == [t |-> "bool", v |-> b]
\* the float i.0
VFloat(i) == [t |-> "float", v |-> i]
\* float('nan'): a float that is neither <= 0 nor > 0
VNaN == [t |-> "float nan", v |-> 0]
\* a reference to the heap object n
VNode(n) == [t |-> "WCPSExpr", v |-> n]
\* a value of a type that is neither a WCPSExpr nor a scalar (a dict, say)
VOther == [t |-> "dict", v |-> 0]
\* a Python list of values
VList(s) == [t |-> "list", v |-> s]
\* the tuple of the values in s
VTuple(s) == [t |-> "tuple", v |-> s]
\* slice(start, stop, step)
VSlice(start, stop, step) == [t |-> "slice", v |-> <<start, stop, step>>]

\* ScalarType = Union[int, float, str, bool]
ScalarType == {"int", "float", "float nan", "str", "bool"}

IsNone(x) == x.t = "None"
IsNode(x) == x.t = "WCPSExpr"

\* the names a Datacube can take, in the order Python sorts strings
DatacubeNames == <<"A", "B">>

Range(s) == {s[i] : i \in 1..Len(s)}

\* the position of a name in the string order
NameRank(name) == CHOOSE i \in 1..Len(DatacubeNames) : DatacubeNames[i] = name

-----------------------------------------------------------------------------
(* The heap *)

\* a fresh object of class `kind`: WCPSExpr.__init__ before any operand is
\* added, and the fields the subclasses' constructors set to None or []
Blank(kind) ==
    [kind |-> kind, parent |-> VNone, operands |-> <<>>,
     name |-> "", op |-> VNone, operator |-> "", func |-> "",
     axis_name |-> "", low |-> VNone, high |-> VNone, crs |-> VNone,
     var_name |-> "", grid_axis |-> VNone, geo_axis |-> VNone,
     case_expr |-> <<>>, then_expr |-> <<>>, default_expr |-> VNone,
     axis_subsets |-> VNone, another_coverage |-> VNone,
     scale_factor |-> VNone, scale_factors |-> VNone,
     target_crs |-> VNone, interpolation_method |-> VNone,
     axis_resolutions |-> VNone, subset_domain |-> VNone,
     condense_op |-> VNone, iter_vars |-> <<>>,
     using_clause |-> VNone, where_clause |-> VNone,
     values_clause |-> VNone, value_list_clause |-> VNone,
     \* whether __init__ raised, so that its caller holds no reference
     init_raised |-> FALSE]

\* the outcome of a call that changes the heap
Done(h) == [h |-> h, err |-> "none"]
Fail(h, e) == [h |-> h, err |-> e]

\* the errors that are a WCPSClientException
IsWCPSClientException(e) ==
    e \notin {"none", "IndexError", "TypeError", "RecursionError", "NoReturn"}

\* add_operand that appends before it looks at the type
add_operand_append_first(h, self, op) ==
    IF IsNone(op) THEN Done(h)
    ELSE IF IsNode(op)
      THEN LET h1 == [h EXCEPT ![self].operands = Append(@, op.v)]
           IN  Done([h1 EXCEPT ![op.v].parent = VNode(self)])
    ELSE LET s == Len(h) + 1
             h1 == Append(h, [Blank("Scalar") EXCEPT !.op = op])
             h2 == [h1 EXCEPT ![self].operands = Append(@, s)]
             h3 == [h2 EXCEPT ![s].parent = VNode(self)]
         IN  IF op.t \in ScalarType THEN Done(h3) ELSE Fail(h3, "InvalidOperand")

\* WCPSExpr.add_operand(self, op)
add_operand(h, self, op) ==
    IF IsNone(op) THEN Done(h)
    ELSE IF IsNode(op)
      THEN LET h1 == [h EXCEPT ![self].operands = Append(@, op.v)]
           IN  Done([h1 EXCEPT ![op.v].parent = VNode(self)])
    ELSE IF op.t \in ScalarType
      THEN LET s == Len(h) + 1
               \* Scalar(op): a new object, parent None, no operands
               h1 == Append(h, [Blank("Scalar") EXCEPT !.op = op])
               h2 == [h1 EXCEPT ![self].operands = Append(@, s)]
           IN  Done([h2 EXCEPT ![s].parent = VNode(self)])
    ELSE Fail(h, "InvalidOperand")

\* the loop of WCPSExpr.__init__: add_operand for each operand in turn; an
\* exception ends the loop
RECURSIVE AddOperands(_, _, _)
AddOperands(h, self, ops) ==
    IF ops = <<>> THEN Done(h)
    ELSE LET r == add_operand(h, self, Head(ops))
         IN  IF r.err # "none" THEN r ELSE AddOperands(r.h, self, Tail(ops))

\* WCPSExpr.__init__(self, operands) for a new object with the fields `rec`
NewExpr(h, rec, ops) == AddOperands(Append(h, rec), Len(h) + 1, ops)

\* the number of Scalar objects that adding the operands creates
ScalarsIn(ops) == Cardinality({i \in 1..Len(ops) : ops[i].t \in ScalarType})

-----------------------------------------------------------------------------
(* get_datacube_operands *)

Children(h, S) == UNION {Range(h[i].operands) : i \in S}

RECURSIVE Closure(_, _)
Closure(h, S) ==
    LET T == S \cup Children(h, S) IN IF T = S THEN S ELSE Closure(h, T)

\* every object the walk from n visits
Descendants(h, n) == Closure(h, Range(h[n].operands))

\* the walk has no visited set: it ends only if no cycle of operands can be
\* reached from n
Loops(h, n) == \E d \in Descendants(h, n) : d \in Descendants(h, d)

\* the set `datacubes` deduplicated by object identity instead of by name
SetAddByIdentity(h, datacubes, eq, op) ==
    IF op \in Range(datacubes) THEN [datacubes |-> datacubes, eq |-> eq]
    ELSE [datacubes |-> Append(datacubes, op), eq |-> eq]

\* datacubes.add(op): Datacube hashes by name, and WCPSExpr.__eq__ returns
\* an Eq object, which is true: an object of the same name is already in the
\* set.  Comparing two distinct objects builds Eq(old, op), whose constructor
\* makes itself the parent of both.
SetAdd(h, datacubes, eq, op) ==
    LET same == {i \in 1..Len(datacubes) : h[datacubes[i]].name = h[op].name}
    IN  IF same = {} THEN [datacubes |-> Append(datacubes, op), eq |-> eq]
        ELSE LET old == datacubes[CHOOSE i \in same : TRUE]
             IN  [datacubes |-> datacubes,
                  eq |-> IF old = op THEN eq ELSE Append(eq, <<old, op>>)]

\* the while loop over the deque `operands`
RECURSIVE Bfs(_, _, _, _)
Bfs(h, queue, datacubes, eq) ==
    IF queue = <<>> THEN [datacubes |-> datacubes, eq |-> eq]
    ELSE LET op == Head(queue)
             a == IF h[op].kind = "Datacube" THEN SetAdd(h, datacubes, eq, op)
                  ELSE [datacubes |-> datacubes, eq |-> eq]
         IN  Bfs(h, Tail(queue) \o h[op].operands, a.datacubes, a.eq)

\* sorted(list(datacubes), key=lambda datacube: datacube.name)
RECURSIVE Sorted(_, _)
Sorted(h, s) ==
    IF s = <<>> THEN <<>>
    ELSE LET d == s[Len(s)]
             r == Sorted(h, SubSeq(s, 1, Len(s) - 1))
             k == Cardinality({i \in 1..Len(r) :
                      NameRank(h[r[i]].name) <= NameRank(h[d].name)})
         IN  SubSeq(r, 1, k) \o <<d>> \o SubSeq(r, k + 1, Len(r))

\* get_datacube_operands that trusts the parent links: it returns no
\* datacube when one it found is not owned by an expression of the heap
get_datacube_operands_owned_only(h, n) ==
    IF Loops(h, n) THEN [ret |-> FALSE, datacubes |-> <<>>, eq |-> <<>>]
    ELSE LET b == Bfs(h, h[n].operands, <<>>, <<>>)
         IN  IF \E i \in 1..Len(b.datacubes) : h[b.datacubes[i]].parent.t # "WCPSExpr"
               THEN [ret |-> TRUE, datacubes |-> <<>>, eq |-> b.eq]
               ELSE [ret |-> TRUE, datacubes |-> Sorted(h, b.datacubes), eq |-> b.eq]

\* WCPSExpr.get_datacube_operands(self); ret is FALSE when the walk never ends
get_datacube_operands(h, n) ==
    IF Loops(h, n) THEN [ret |-> FALSE, datacubes |-> <<>>, eq |-> <<>>]
    ELSE LET b == Bfs(h, h[n].operands, <<>>, <<>>)
         IN  [ret |-> TRUE, datacubes |-> Sorted(h, b.datacubes), eq |-> b.eq]

-----------------------------------------------------------------------------
(* __str__ *)

\* the outcome of a rendering: the error raised or the text, and the Eq
\* objects that get_datacube_operands built on the way
Ok(txt) == [err |-> "none", txt |-> txt, eq |-> <<>>]
Raise(e) == [err |-> e, txt |-> <<>>, eq |-> <<>>]

\* the parts of an f-string, evaluated left to right up to the first error
RECURSIVE Cat(_)
Cat(parts) ==
    IF parts = <<>> THEN Ok(<<>>)
    ELSE LET a == Head(parts)
         IN  IF a.err # "none" THEN a
             ELSE LET b == Cat(Tail(parts))
                  IN  [err |-> b.err,
                       txt |-> IF b.err = "none" THEN a.txt \o b.txt ELSE <<>>,
                       eq |-> a.eq \o b.eq]

\* sep.join(items) of rendered items
RECURSIVE Join(_, _)
Join(items, sep) ==
    IF items = <<>> THEN Ok(<<>>)
    ELSE IF Len(items) = 1 THEN Cat(items)
    ELSE Cat(<<Head(items), Ok(<<sep>>), Join(Tail(items), sep)>>)

\* f'{d} in ({d.name})' for each datacube, joined by ', '
RECURSIVE Declarations(_, _)
Declarations(h, ds) ==
    IF ds = <<>> THEN <<>>
    ELSE LET d == h[Head(ds)]
             one == <<"$" \o d.name, " in (", d.name, ")">>
         IN  IF Len(ds) = 1 THEN one
             ELSE one \o <<", ">> \o Declarations(h, Tail(ds))

\* the shared step with the test of the parent left out
WCPSExpr_str_always(h, n) ==
    LET g == get_datacube_operands(h, n)
    IN  IF ~g.ret THEN Raise("NoReturn")
        ELSE IF Len(g.datacubes) = 0 THEN Raise("NoDatasetReferenced")
        ELSE [err |-> "none",
              txt |-> <<"for ">> \o Declarations(h, g.datacubes) \o <<"\nreturn\n  ">>,
              eq |-> g.eq]

\* the shared step without the test for an empty list of datacubes
WCPSExpr_str_no_check(h, n) ==
    IF ~IsNone(h[n].parent) THEN Ok(<<>>)
    ELSE LET g == get_datacube_operands(h, n)
         IN  IF ~g.ret THEN Raise("NoReturn")
             ELSE [err |-> "none",
                   txt |-> <<"for ">> \o Declarations(h, g.datacubes) \o <<"\nreturn\n  ">>,
                   eq |-> g.eq]

\* WCPSExpr.__str__(self): the prologue, for the root only
WCPSExpr_str(h, n) ==
    IF ~IsNone(h[n].parent) THEN Ok(<<>>)
    ELSE LET g == get_datacube_operands(h, n)
         IN  IF ~g.ret THEN Raise("NoReturn")
             ELSE IF Len(g.datacubes) = 0 THEN Raise("NoDatasetReferenced")
             ELSE [err |-> "none",
                   txt |-> <<"for ">> \o Declarations(h, g.datacubes) \o <<"\nreturn\n  ">>,
                   eq |-> g.eq]

\* _list_to_str(lst, sep) over heap objects
ListToStr(rendered, sep) == Join(rendered, sep)

\* the two checks of Switch.__str__ with the second one left out
Switch_str_default_unchecked(self) ==
    IF Len(self.then_expr) = 0 THEN "MissingBranches" ELSE "none"

\* Condense._validate without the test of the using clause
Condense_validate_using_unchecked(h, self) ==
    IF Len(self.iter_vars) = 0 THEN "MissingOverClause"
    ELSE IF \E i \in 1..Len(self.iter_vars) :
               ~(IsNode(self.iter_vars[i]) /\ h[self.iter_vars[i].v].kind = "AxisIter")
      THEN "InvalidIterator"
    ELSE "none"

\* Condense._validate(self): the error raised, if any
Condense_validate(h, self) ==
    IF Len(self.iter_vars) = 0 THEN "MissingOverClause"
    ELSE IF IsNone(self.using_clause) THEN "MissingUsingClause"
    ELSE IF \E i \in 1..Len(self.iter_vars) :
               ~(IsNode(self.iter_vars[i]) /\ h[self.iter_vars[i].v].kind = "AxisIter")
      THEN "InvalidIterator"
    ELSE "none"

\* Coverage._validate(self): the error raised, if any
Coverage_validate(self) ==
    IF Len(self.iter_vars) = 0 THEN "MissingOverClause"
    ELSE IF IsNone(self.values_clause) /\ IsNone(self.value_list_clause)
      THEN "MissingValuesClause"
    ELSE "none"

\* the two checks Switch.__str__ starts with: the error raised, if any
Switch_str_raises(self) ==
    IF Len(self.then_expr) = 0 THEN "MissingBranches"
    ELSE IF IsNone(self.default_expr) THEN "MissingDefault"
    ELSE "none"

\* a str that is read word by word is written as the sequence of its
\* words and of the blanks between and around them: ' near ' is
\* <<" ", "near", " ">>; a member of the enumeration ResampleAlg holds its
\* value
VWords(words) == [t |-> "str", v |-> words]
VResampleAlg(value) == [t |-> "ResampleAlg", v |-> value]

\* str(method) of an interpolation method kept by a Reproject or of the
\* operator kept by a Condense: a member of the enumeration, or a string
StrOfMethod(method) == IF method.t = "str" THEN method.v ELSE <<method.v>>

VCondenseOp(value) == [t |-> "CondenseOp", v |-> value]

RECURSIVE Str(_, _, _)

\* str(x) of a Python value x, as an f-string field does it
Fmt(h, x, fuel) ==
    CASE x.t = "WCPSExpr" -> Str(h, x.v, fuel)
      [] x.t = "None" -> Ok(<<"None">>)
      [] x.t = "int" -> Ok(<<ToString(x.v)>>)
      [] x.t = "float" -> Ok(<<ToString(x.v) \o ".0">>)
      [] x.t = "float nan" -> Ok(<<"nan">>)
      [] x.t = "str" -> Ok(<<x.v>>)
      [] x.t = "bool" -> Ok(<<IF x.v THEN "True" ELSE "False">>)
      [] OTHER -> Ok(<<"{}">>)

\* Axis.__str__: '"*"' among the rendered operands becomes '*'
Unquote(r) == IF r.err = "none" /\ r.txt = <<"\"*\"">> THEN Ok(<<"*">>) ELSE r

\* str(self) of the heap object n.  fuel is the depth of Python's call stack
\* that is left: a rendering that follows a cycle ends in RecursionError.
Str(h, n, fuel) ==
    IF fuel = 0 THEN Raise("RecursionError")
    ELSE
    LET self == h[n]
        super == WCPSExpr_str(h, n)
        Operand(i) == IF i <= Len(self.operands)
                        THEN Str(h, self.operands[i], fuel - 1)
                        ELSE Raise("IndexError")
        Operands(from) == [i \in 1..(Len(self.operands) - from + 1) |->
                              Str(h, self.operands[i + from - 1], fuel - 1)]
        Field(x) == Fmt(h, x, fuel - 1)
    IN
    CASE self.kind = "Datacube" ->
           \* Datacube.__str__
           Ok(<<"$" \o self.name>>)
      [] self.kind = "Scalar" ->
           \* Scalar.__str__
           Cat(<<super,
                 IF self.op.t = "str" THEN Ok(<<"\"" \o self.op.v \o "\"">>)
                 ELSE Fmt(h, self.op, fuel)>>)
      [] self.kind = "BinaryOp" ->
           \* BinaryOp.__str__
           Cat(<<super, Ok(<<"(">>), Operand(1), Ok(<<" " \o self.operator \o " ">>),
                 Operand(2), Ok(<<")">>)>>)
      [] self.kind = "UnaryOp" ->
           \* UnaryOp.__str__
           Cat(<<super, Ok(<<"(", self.operator, " ">>), Operand(1), Ok(<<")">>)>>)
      [] self.kind = "UnaryFunc" ->
           \* UnaryFunc.__str__
           Cat(<<super, Ok(<<self.func, "(">>), Operand(1), Ok(<<")">>)>>)
      [] self.kind = "BinaryFunc" ->
           \* BinaryFunc.__str__
           Cat(<<super, Ok(<<self.func, "(">>), Operand(1), Ok(<<", ">>), Operand(2),
                 Ok(<<")">>)>>)
      [] self.kind = "Axis" ->
           \* Axis.__str__: the shared step is not called
           Cat(<<Ok(<<self.axis_name>>),
                 IF IsNone(self.crs) THEN Ok(<<>>)
                 ELSE Ok(<<":\"" \o self.crs.v \o "\"">>),
                 Ok(<<"(">>),
                 Join([i \in 1..Len(self.operands) |-> Unquote(Operand(i))], ":"),
                 Ok(<<")">>)>>)
      [] self.kind = "AxisIter" ->
           \* AxisIter.__str__: the shared step is not called
           LET iter_spec ==
                 IF ~IsNone(self.low) /\ ~IsNone(self.high)
                   THEN Cat(<<Field(self.low), Ok(<<" : ">>), Field(self.high)>>)
                 ELSE IF ~IsNone(self.grid_axis)
                   THEN Cat(<<Ok(<<"imageCrsDomain(">>), Field(self.grid_axis),
                              Ok(<<", ", self.axis_name, ")">>)>>)
                 ELSE IF ~IsNone(self.geo_axis)
                   THEN Cat(<<Ok(<<"domain(">>), Field(self.geo_axis),
                              Ok(<<", ", self.axis_name, ")">>)>>)
                 ELSE Raise("MissingIterationDomain")
           IN  IF iter_spec.err # "none" THEN iter_spec
               ELSE [err |-> "none",
                     txt |-> <<self.var_name, " ", self.axis_name, "(">>
                             \o iter_spec.txt \o <<")">>,
                     eq |-> iter_spec.eq]
      [] self.kind = "Switch" ->
           \* Switch.__str__
           IF Switch_str_raises(self) # "none" THEN Raise(Switch_str_raises(self))
           ELSE LET zipped == IF Len(self.case_expr) < Len(self.then_expr)
                                THEN Len(self.case_expr) ELSE Len(self.then_expr)
                    branch(i) == Cat(<<Ok(<<" case ">>), Field(self.case_expr[i]),
                                       Ok(<<" return ">>), Field(self.then_expr[i])>>)
                IN  Cat(<<super, Ok(<<"(switch">>),
                          Cat([i \in 1..zipped |-> branch(i)]),
                          Ok(<<" default return ">>), Field(self.default_expr),
                          Ok(<<")">>)>>)
      [] self.kind = "Scale" ->
           \* Scale.__str__
           LET head == Cat(<<super, Ok(<<"scale(">>), Operand(1), Ok(<<", { ">>)>>)
               rest == Cat(<<ListToStr(Operands(2), ", "), Ok(<<" })">>)>>)
           IN  IF head.err # "none" THEN head
               ELSE IF ~IsNone(self.axis_subsets) THEN Cat(<<head, rest>>)
               ELSE IF ~IsNone(self.another_coverage)
                 THEN Cat(<<head, Ok(<<"imageCrsDomain(">>),
                            Field(self.another_coverage), Ok(<<")">>), Ok(<<" })">>)>>)
               ELSE IF ~IsNone(self.scale_factor)
                 THEN LET again == Cat(<<super, Ok(<<"scale(">>), Operand(1), Ok(<<", ">>),
                                         Field(self.scale_factor), Ok(<<")">>)>>)
                      IN  [again EXCEPT !.eq = head.eq \o @]
               ELSE IF ~IsNone(self.scale_factors) THEN Cat(<<head, rest>>)
               ELSE [Raise("MissingScaleTarget") EXCEPT !.eq = head.eq]
      [] self.kind = "Reproject" ->
           \* Reproject.__str__
           LET resolution(a) == Cat(<<Ok(<<h[a.v].axis_name, ":">>), Field(h[a.v].low)>>)
               listed(axes) == [i \in 1..Len(axes.v) |-> Str(h, axes.v[i].v, fuel - 1)]
           IN  Cat(<<super, Ok(<<"crsTransform(">>), Operand(1), Ok(<<", \"">>),
                     Field(self.target_crs), Ok(<<"\"">>),
                     IF IsNone(self.interpolation_method) THEN Ok(<<>>)
                     ELSE Ok(<<", { ">> \o StrOfMethod(self.interpolation_method)
                                      \o <<" }">>),
                     IF IsNone(self.axis_resolutions) THEN Ok(<<>>)
                     ELSE Cat(<<Ok(<<", { ">>),
                                Join([i \in 1..Len(self.axis_resolutions.v) |->
                                         resolution(self.axis_resolutions.v[i])], ", "),
                                Ok(<<" }">>)>>),
                     IF ~IsNone(self.axis_subsets)
                       THEN Cat(<<Ok(<<", { ">>),
                                  ListToStr(listed(self.axis_subsets), ", "),
                                  Ok(<<" }">>)>>)
                     ELSE IF ~IsNone(self.subset_domain)
                       THEN Cat(<<Ok(<<", { domain(">>), Field(self.subset_domain),
                                  Ok(<<") }">>)>>)
                     ELSE Ok(<<>>),
                     Ok(<<")">>)>>)
      [] self.kind = "Condense" ->
           \* Condense.__str__: _validate comes before the shared step
           IF Condense_validate(h, self) # "none" THEN Raise(Condense_validate(h, self))
           ELSE LET \* the iterators are rendered first, the shared step next
                    over == ListToStr([i \in 1..Len(self.iter_vars) |->
                                          Field(self.iter_vars[i])], ", ")
                    ret == Cat(<<super, Ok(<<"(condense ">>),
                                 Ok(StrOfMethod(self.condense_op)), Ok(<<" over ">>),
                                 Ok(over.txt),
                                 IF IsNone(self.where_clause) THEN Ok(<<>>)
                                 ELSE Cat(<<Ok(<<" where ">>), Field(self.where_clause)>>),
                                 Ok(<<" using ">>), Field(self.using_clause),
                                 Ok(<<")">>)>>)
                IN  IF over.err # "none" THEN over
                    ELSE [ret EXCEPT !.eq = over.eq \o @]
      [] self.kind = "Coverage" ->
           \* Coverage.__str__: _validate comes before the shared step
           IF Coverage_validate(self) # "none" THEN Raise(Coverage_validate(self))
           ELSE Cat(<<super, Ok(<<"(coverage ", self.name, " over ">>),
                      ListToStr([i \in 1..Len(self.iter_vars) |->
                                    Field(self.iter_vars[i])], ", "),
                      IF ~IsNone(self.values_clause)
                        THEN Cat(<<Ok(<<" values ">>), Field(self.values_clause),
                                   Ok(<<")">>)>>)
                      ELSE Cat(<<Ok(<<" value list < ">>),
                                 ListToStr([i \in 1..Len(self.value_list_clause.v) |->
                                               Field(self.value_list_clause.v[i])], "; "),
                                 Ok(<<" >)">>)>>)>>)
      [] OTHER -> Raise("TypeError")

\* str(n) called by the user: Python's stack holds more frames than the heap
\* of the model has objects
Render(h, n) == Str(h, n, Len(h) + 1)

\* the parents after the Eq objects of a rendering were built: each Eq(a, b)
\* is the parent of a and of b, and is itself no object of the heap
RECURSIVE ApplyEq(_, _)
ApplyEq(h, eq) ==
    IF eq = <<>> THEN h
    ELSE LET p == [t |-> "Eq", v |-> Head(eq)]
             h1 == [h EXCEPT ![Head(eq)[1]].parent = p]
         IN  ApplyEq([h1 EXCEPT ![Head(eq)[2]].parent = p], Tail(eq))

-----------------------------------------------------------------------------
(* The calls of the public API *)

\* the record of a call: the method, the object it was called on (for a
\* constructor, the object made), its arguments, the error raised ("none"
\* when it returned) and, for str(), the text returned
Call(call, self, args, err, txt) ==
    [call |-> call, self |-> self, args |-> args, err |-> err, txt |-> txt,
     ret |-> <<>>]

\* the record of a call that returned the list of objects ret
Returned(call, self, args, err, ret) ==
    [call |-> call, self |-> self, args |-> args, err |-> err, txt |-> <<>>,
     ret |-> ret]

NodeIds == 1..Len(nodes)

\* the raw scalars passed where an operand is expected
Scalars == {VInt(1)}

\* what a caller passes as an operand: an expression or a raw scalar
Operands == {VNode(n) : n \in NodeIds} \cup Scalars

\* whether the heap has room for k more objects
Room(k) == Len(nodes) + k <= MaxNodes

Init ==
    /\ nodes = <<>>
    /\ last = Call("none", 0, <<>>, "none", <<>>)

\* Datacube(name)
NewDatacube(name) ==
    /\ Room(1)
    /\ nodes' = Append(nodes, [Blank("Datacube") EXCEPT !.name = name])
    /\ last' = Call("Datacube", Len(nodes) + 1, <<VStr(name)>>, "none", <<>>)

\* Add(op1, op2), also reached as op1 + op2, op1.add(op2) and op2.__radd__(op1)
NewBinaryOp(op1, op2) ==
    LET r == NewExpr(nodes, [Blank("BinaryOp") EXCEPT !.operator = "+"], <<op1, op2>>)
    IN  /\ Room(1 + ScalarsIn(<<op1, op2>>))
        /\ nodes' = r.h
        /\ last' = Call("BinaryOp", Len(nodes) + 1, <<op1, op2>>, r.err, <<>>)

\* Axis.__init__(self, axis_name, low, high, crs) for a new object: the
\* operands are added before the name is checked
Axis(h, axis_name, low, high, crs) ==
    LET rec == [Blank("Axis") EXCEPT !.axis_name = axis_name, !.low = low,
                                     !.high = high, !.crs = crs]
        r == NewExpr(h, rec, <<low, high>>)
    IN  IF r.err = "none" /\ axis_name = "" THEN Fail(r.h, "EmptyAxisName") ELSE r

\* Axis(axis_name, low, high, crs)
NewAxis(axis_name, low, high, crs) ==
    LET r == Axis(nodes, axis_name, low, high, crs)
    IN  /\ Room(1 + ScalarsIn(<<low, high>>))
        /\ nodes' = r.h
        /\ last' = Call("Axis", Len(nodes) + 1, <<low, high>>, r.err, <<>>)

\* AxisIter(var_name, axis_name)
NewAxisIter(var_name, axis_name) ==
    /\ Room(1)
    /\ var_name # "" /\ axis_name # ""
    /\ nodes' = Append(nodes, [Blank("AxisIter") EXCEPT
                                 !.var_name = "$" \o var_name, !.axis_name = axis_name])
    /\ last' = Call("AxisIter", Len(nodes) + 1, <<VStr(var_name), VStr(axis_name)>>,
                    "none", <<>>)

\* BoundType = Union[int, float, str, WCPSExpr]; a bool is an int
IsBoundType(x) == x.t \in {"int", "float", "float nan", "str", "bool", "WCPSExpr"}

\* AxisIter.interval(self, low, high)
interval(h, self, low, high) ==
    IF ~IsBoundType(low) \/ ~IsBoundType(high) THEN Fail(h, "InvalidBound")
    ELSE IF ~IsNone(h[self].grid_axis) \/ ~IsNone(h[self].geo_axis)
      THEN Fail(h, "ConflictingIterationDomain")
    ELSE Done([h EXCEPT ![self].low = low, ![self].high = high])

Interval(self, low, high) ==
    LET r == interval(nodes, self, low, high)
    IN  /\ nodes[self].kind = "AxisIter"
        /\ nodes' = r.h
        /\ last' = Call("interval", self, <<low, high>>, r.err, <<>>)

\* self.add_operand(op), a public method of every WCPSExpr
AddOperand(self, op) ==
    LET r == add_operand(nodes, self, op)
    IN  /\ Room(IF op.t \in ScalarType THEN 1 ELSE 0)
        /\ nodes' = r.h
        /\ last' = Call("add_operand", self, <<op>>, r.err, <<>>)

\* str(self)
StrCall(self) ==
    LET r == Render(nodes, self)
    IN  /\ nodes' = ApplyEq(nodes, r.eq)
        /\ last' = Call("str", self, <<>>, r.err, r.txt)

-----------------------------------------------------------------------------
(* Spec: expression trees of datacubes, scalars, operators, axes and       *)
(* iterators, built by constructors and add_operand, and rendered          *)

Next ==
    \/ \E name \in Range(DatacubeNames) : NewDatacube(name)
    \/ \E op1, op2 \in Operands : NewBinaryOp(op1, op2)
    \/ \E low \in Operands : NewAxis("X", low, VNone, VNone)
    \/ NewAxisIter("x", "X")
    \/ \E self \in NodeIds, low \in {VNode(n) : n \in NodeIds} : Interval(self, low, VInt(1))
    \/ \E self \in NodeIds : StrCall(self)

Spec == Init /\ [][Next]_vars

-----------------------------------------------------------------------------
(* Reading a rendered text *)

\* how many times the piece p occurs in the text
Count(txt, p) == Cardinality({i \in 1..Len(txt) : txt[i] = p})

\* the text begins with the prologue `for ... return`
StartsWithPrologue(txt) == Len(txt) > 0 /\ txt[1] = "for "

\* where the first prologue of the text ends
PrologueEnd(txt) ==
    CHOOSE i \in 1..Len(txt) :
        /\ txt[i] = "\nreturn\n  "
        /\ \A j \in 1..(i - 1) : txt[j] # "\nreturn\n  "

\* the names the first prologue declares, in its order: the pieces d.name of
\* ' in (' d.name ')'
Declared(txt) ==
    LET at == {i \in 2..PrologueEnd(txt) : txt[i - 1] = " in ("}
        nth(k) == CHOOSE i \in at : Cardinality({j \in at : j < i}) = k - 1
    IN  [k \in 1..Cardinality(at) |-> txt[nth(k)]]

\* the names of the Datacube objects below n in the operand tree
NamesBelow(h, n) == {h[d].name : d \in {e \in Descendants(h, n) : h[e].kind = "Datacube"}}

\* the last call was str(n) on a root
RenderedRoot == last.call = "str" /\ IsNone(nodes[last.self].parent)
\* the last call was str(n) on a node that has a parent
RenderedChild == last.call = "str" /\ ~IsNone(nodes[last.self].parent)

\* the classes of the model whose __str__ begins with super().__str__()
CallsSharedStep == {"Scalar", "BinaryOp"}

-----------------------------------------------------------------------------
(* Claims about rendering, checked under Spec *)

\* C1 (as stated): the text returned for a root, whatever its kind, holds the
\* prologue exactly once, at its start.
C1_RootHasOnePrologueAtStart ==
    (RenderedRoot /\ last.err = "none") =>
        /\ StartsWithPrologue(last.txt)
        /\ Count(last.txt, "for ") = 1

\* C2: rendering a node whose parent is set gives body text only: the shared
\* step returns the empty text for it and does not raise, and a subtree of
\* scalars and operators without any dataset reference renders all the same.
C2_ChildRendersBodyOnly ==
    /\ \A n \in NodeIds : ~IsNone(nodes[n].parent) => WCPSExpr_str(nodes, n) = Ok(<<>>)
    /\ (RenderedChild /\ last.err = "none") => ~StartsWithPrologue(last.txt)
    /\ (RenderedChild /\ \A d \in Descendants(nodes, last.self) \cup {last.self} :
                             nodes[d].kind \in {"Scalar", "BinaryOp", "Datacube", "Axis"})
          => last.err = "none" /\ last.txt # <<>>

\* C2 witness: a scalar operand, whose subtree has no dataset reference, was
\* rendered on its own and gave its body "1"
C2_Witness ==
    /\ RenderedChild
    /\ nodes[last.self].kind = "Scalar"
    /\ last.err = "none" /\ last.txt = <<"1">>

\* C3: the prologue of a root declares every dataset name that its operands
\* reach exactly once, in alphabetical order.
C3_PrologueDeclaresEachNameOnceSorted ==
    (RenderedRoot /\ last.err = "none" /\ StartsWithPrologue(last.txt)) =>
        LET d == Declared(last.txt)
        IN  /\ Range(d) = NamesBelow(nodes, last.self)
            /\ \A i, j \in 1..Len(d) : i < j => NameRank(d[i]) < NameRank(d[j])

\* C3 witness: a root over two distinct objects of one name and an object of
\* another name that was created first
C3_Witness ==
    /\ RenderedRoot /\ last.err = "none"
    /\ last.txt = <<"for ", "$A", " in (", "A", ")", ", ", "$B", " in (", "B", ")",
                    "\nreturn\n  ", "(", "$B", " + ", "$A", ")">>

\* C3 witness of the collapse: two Datacube objects named alike under one root
C3_WitnessSameName ==
    /\ RenderedRoot /\ last.err = "none"
    /\ \E a, b \in Descendants(nodes, last.self) :
          a # b /\ nodes[a].kind = "Datacube" /\ nodes[b].kind = "Datacube"
          /\ nodes[a].name = nodes[b].name
    /\ Len(Declared(last.txt)) = 1

-----------------------------------------------------------------------------
(* SpecOperand: add_operand called with values of every type *)

\* a value of each type add_operand tells apart
AnyValue ==
    {VNode(n) : n \in NodeIds}
        \cup {VInt(1), VFloat(2), VStr("s"), VBool(TRUE), VNone, VOther}

NextOperand ==
    \/ \E name \in Range(DatacubeNames) : NewDatacube(name)
    \/ \E self \in NodeIds, op \in AnyValue :
          Len(nodes[self].operands) < MaxOperands /\ AddOperand(self, op)

SpecOperand == Init /\ [][NextOperand]_vars

\* the heap but for the objects in S
Others(h, S) == [i \in (1..Len(h)) \ S |-> h[i]]

\* C5: add_operand(v) appends an expression as it is, appends a new Scalar
\* around an int, float, str or bool, ignores None and raises InvalidOperand
\* for any other type, leaving the operands as they were; the appended child
\* has the owner as its parent.
C5_AddOperandContract ==
    [][last'.call = "add_operand" =>
        LET self == last'.self
            op == last'.args[1]
            new == Len(nodes) + 1
        IN  CASE IsNode(op) ->
                   /\ last'.err = "none"
                   /\ Len(nodes') = Len(nodes)
                   /\ nodes'[self].operands = Append(nodes[self].operands, op.v)
                   /\ nodes'[op.v].parent = VNode(self)
                   /\ [nodes'[op.v] EXCEPT !.parent = VNone, !.operands = <<>>]
                        = [nodes[op.v] EXCEPT !.parent = VNone, !.operands = <<>>]
                   /\ Others(nodes', {self, op.v}) = Others(nodes, {self, op.v})
              [] op.t \in ScalarType ->
                   /\ last'.err = "none"
                   /\ Len(nodes') = new
                   /\ nodes'[self].operands = Append(nodes[self].operands, new)
                   /\ nodes'[new] = [Blank("Scalar") EXCEPT !.op = op, !.parent = VNode(self)]
                   /\ Others(nodes', {self, new}) = Others(nodes, {self})
              [] IsNone(op) ->
                   last'.err = "none" /\ nodes' = nodes
              [] OTHER ->
                   last'.err = "InvalidOperand" /\ nodes' = nodes
    ]_vars

\* C5 witness: a raw string was added to an owner that had an operand: a new
\* Scalar around it is the owner's last operand and has the owner as parent
C5_Witness ==
    /\ last.call = "add_operand" /\ last.err = "none"
    /\ last.args[1] = VStr("s")
    /\ Len(nodes[last.self].operands) = 2
    /\ LET c == nodes[last.self].operands[2]
       IN  nodes[c].kind = "Scalar" /\ nodes[c].op = VStr("s")
           /\ nodes[c].parent = VNode(last.self)

-----------------------------------------------------------------------------
(* SpecSwitch: Switch objects built by case, then and default, and rendered *)

\* Switch.case with the check of the two counts left out
case_unchecked(h, self, case_expr) ==
    LET r == add_operand(h, self, case_expr)
    IN  IF r.err # "none" THEN r
        ELSE Done([r.h EXCEPT ![self].case_expr = Append(@, case_expr)])

\* Switch.case(self, case_expr)
case(h, self, case_expr) ==
    IF Len(h[self].case_expr) # Len(h[self].then_expr)
      THEN Fail(h, "MismatchedBranches")
    ELSE LET r == add_operand(h, self, case_expr)
         IN  IF r.err # "none" THEN r
             ELSE Done([r.h EXCEPT ![self].case_expr = Append(@, case_expr)])

\* Switch.then(self, then_expr)
then(h, self, then_expr) ==
    IF Len(h[self].case_expr) - 1 # Len(h[self].then_expr)
      THEN Fail(h, "MismatchedBranches")
    ELSE LET r == add_operand(h, self, then_expr)
         IN  IF r.err # "none" THEN r
             ELSE Done([r.h EXCEPT ![self].then_expr = Append(@, then_expr)])

\* Switch.default with the check for a default already set left out
default_replacing(h, self, default_expr) ==
    IF Len(h[self].then_expr) = 0 THEN Fail(h, "MissingBranches")
    ELSE add_operand([h EXCEPT ![self].default_expr = default_expr], self, default_expr)

\* Switch.default(self, default_expr): the field is assigned before the
\* operand is added
default(h, self, default_expr) ==
    IF Len(h[self].then_expr) = 0 THEN Fail(h, "MissingBranches")
    ELSE IF ~IsNone(h[self].default_expr) THEN Fail(h, "DuplicateDefault")
    ELSE add_operand([h EXCEPT ![self].default_expr = default_expr], self, default_expr)

\* Switch()
NewSwitch ==
    /\ Room(1)
    /\ Cardinality({n \in NodeIds : nodes[n].kind = "Switch"}) < MaxSwitches
    /\ nodes' = Append(nodes, Blank("Switch"))
    /\ last' = Call("Switch", Len(nodes) + 1, <<>>, "none", <<>>)

Switches == {n \in NodeIds : nodes[n].kind = "Switch"}

Case(self, case_expr) ==
    LET r == case(nodes, self, case_expr)
    IN  /\ Len(r.h) <= MaxNodes
        /\ Len(r.h[self].case_expr) <= MaxBranches
        /\ nodes' = r.h
        /\ last' = Call("case", self, <<case_expr>>, r.err, <<>>)

Then(self, then_expr) ==
    LET r == then(nodes, self, then_expr)
    IN  /\ Len(r.h) <= MaxNodes
        /\ nodes' = r.h
        /\ last' = Call("then", self, <<then_expr>>, r.err, <<>>)

Default(self, default_expr) ==
    LET r == default(nodes, self, default_expr)
    IN  /\ Len(r.h) <= MaxNodes
        /\ nodes' = r.h
        /\ last' = Call("default", self, <<default_expr>>, r.err, <<>>)

\* what a caller passes to default: an operand (the Switch itself among
\* them), or None, or a value that is no operand
SwitchArgs == Operands \cup {VNone, VOther}

\* what a caller passes to case and then: another expression, or None, or a
\* value that is no operand
BranchArgs == {VNode(n) : n \in NodeIds \ Switches} \cup {VNone, VOther}

NextSwitch ==
    \/ NewDatacube("A")
    \/ NewSwitch
    \/ \E self \in Switches, e \in BranchArgs : Case(self, e)
    \/ \E self \in Switches, e \in BranchArgs : Then(self, e)
    \/ \E self \in Switches, e \in SwitchArgs : Default(self, e)
    \/ \E self \in Switches : StrCall(self)

SpecSwitch == Init /\ [][NextSwitch]_vars

\* the state of a Switch in the state machine of its calls
SwitchState(sw) ==
    IF ~IsNone(sw.default_expr) THEN "complete"
    ELSE IF Len(sw.case_expr) = Len(sw.then_expr) + 1 THEN "awaiting-then"
    ELSE IF Len(sw.then_expr) = 0 THEN "empty"
    ELSE "awaiting-case-or-default"

\* the calls the sequence case, then, (case, then)*, default allows in a state
Allowed(state) ==
    CASE state = "empty" -> {"case"}
      [] state = "awaiting-then" -> {"then"}
      [] state = "awaiting-case-or-default" -> {"case", "default"}
      [] OTHER -> {}

\* C6: a case, then or default call that departs from the sequence
\* case, then, (case, then)*, default raises WCPSClientException: then
\* without a pending case, case or default while a then is pending, default
\* before any branch, and every call after default.
C6_OnlyStrictAlternation ==
    [][(/\ last'.call \in {"case", "then", "default"}
        /\ last'.call \notin Allowed(SwitchState(nodes[last'.self])))
       => IsWCPSClientException(last'.err)]_vars

\* C7: case succeeds exactly when the Switch has as many cases as thens, then
\* succeeds exactly when it has one case more than thens, and each raises
\* MismatchedBranches otherwise (the argument being an operand or None); in
\* every state 0 <= #cases - #thens <= 1.
C7_CaseThenCounts ==
    [][/\ \A n \in 1..Len(nodes') :
             Len(nodes'[n].case_expr) - Len(nodes'[n].then_expr) \in {0, 1}
       /\ (last'.call \in {"case", "then"} /\ last'.args[1] # VOther) =>
            LET sw == nodes[last'.self]
                ahead == IF last'.call = "case" THEN 0 ELSE 1
                legal == Len(sw.case_expr) = Len(sw.then_expr) + ahead
            IN  /\ legal <=> last'.err = "none"
                /\ ~legal <=> last'.err = "MismatchedBranches"
                /\ ~legal => nodes' = nodes
                /\ legal =>
                     LET after == nodes'[last'.self]
                     IN  IF last'.call = "case"
                           THEN /\ after.case_expr = Append(sw.case_expr, last'.args[1])
                                /\ after.then_expr = sw.then_expr
                           ELSE /\ after.then_expr = Append(sw.then_expr, last'.args[1])
                                /\ after.case_expr = sw.case_expr
    ]_vars

\* C7 witness: a case called while a then was pending raised
\* MismatchedBranches, on a Switch that has a complete branch already
C7_Witness ==
    /\ last.call = "case" /\ last.err = "MismatchedBranches"
    /\ Len(nodes[last.self].case_expr) = 2
    /\ Len(nodes[last.self].then_expr) = 1

\* C8: default succeeds only on a Switch that has a branch and no default;
\* it raises MissingBranches on a Switch without a branch and
\* DuplicateDefault on a Switch that has a default, and a default that is
\* set is never replaced.
C8_DefaultOnce ==
    [][/\ \A n \in 1..Len(nodes) :
             ~IsNone(nodes[n].default_expr)
                => nodes'[n].default_expr = nodes[n].default_expr
       /\ last'.call = "default" =>
            LET sw == nodes[last'.self]
            IN  /\ last'.err = "none"
                     => Len(sw.then_expr) >= 1 /\ IsNone(sw.default_expr)
                /\ Len(sw.then_expr) = 0 => last'.err = "MissingBranches"
                /\ (Len(sw.then_expr) >= 1 /\ ~IsNone(sw.default_expr))
                     => last'.err = "DuplicateDefault"
                /\ last'.err \in {"MissingBranches", "DuplicateDefault"}
                     => nodes' = nodes
    ]_vars

\* C8 witness: a second default, with another expression, raised
\* DuplicateDefault and the first default is still the default
C8_Witness ==
    /\ last.call = "default" /\ last.err = "DuplicateDefault"
    /\ IsNode(last.args[1])
    /\ nodes[last.self].default_expr = VInt(1)

\* C9: str() of a Switch that has no branch or no default raises
\* WCPSClientException; it returns only for a Switch with at least one
\* complete branch and a default.
C9_RenderNeedsBranchAndDefault ==
    (last.call = "str" /\ nodes[last.self].kind = "Switch") =>
        LET sw == nodes[last.self]
            complete == /\ Len(sw.case_expr) >= 1 /\ Len(sw.then_expr) >= 1
                        /\ ~IsNone(sw.default_expr)
        IN  /\ ~complete => IsWCPSClientException(last.err)
            /\ last.err = "none" => complete

\* C9 witness: str() of a Switch with a branch and no default raised
C9_Witness ==
    /\ last.call = "str" /\ nodes[last.self].kind = "Switch"
    /\ Len(nodes[last.self].then_expr) = 1
    /\ IsNone(nodes[last.self].default_expr)
    /\ last.err = "MissingDefault"

\* C9: str() of a Switch with a branch and a default over a datacube returned
C9_WitnessRendered ==
    /\ last.call = "str" /\ nodes[last.self].kind = "Switch"
    /\ last.err = "none"
    /\ last.txt = <<"for ", "$A", " in (", "A", ")", "\nreturn\n  ", "(switch",
                    " case ", "$A", " return ", "$A", " default return ", "$A", ")">>

-----------------------------------------------------------------------------
(* SpecScale: Scale objects and the four setters of the target *)

\* isinstance(x, Axis)
IsAxis(h, x) == IsNode(x) /\ h[x.v].kind = "Axis"

\* the outcome of a call that makes Axis objects: the heap, the error and
\* the objects returned
Axes(h, axes) == [h |-> h, err |-> "none", axes |-> axes]
NoAxes(h, e) == [h |-> h, err |-> e, axes |-> <<>>]

\* the Axis object made by a call of the constructor with the outcome r
AxisMade(r, id) == IF r.err # "none" THEN NoAxes(r.h, r.err) ELSE Axes(r.h, <<id>>)

\* AxisOfTuple with the CRS of the tuple left out
AxisOfTuple_without_crs(h, t) ==
    IF Len(t) < 2 \/ Len(t) > 4 THEN NoAxes(h, "TypeError")
    ELSE AxisMade(Axis(h, IF t[1].t = "str" THEN t[1].v ELSE "", t[2],
                       IF Len(t) >= 3 THEN t[3] ELSE VNone, VNone),
                  Len(h) + 1)

\* Axis(*t) for the tuple t = (axis_name, low[, high[, crs]]), and
\* Axis(axis_name=s.start, low=s.stop, high=s.step) for the slice t; the
\* names passed are strings
AxisOfTuple(h, t) ==
    IF Len(t) < 2 \/ Len(t) > 4 THEN NoAxes(h, "TypeError")
    ELSE AxisMade(Axis(h, IF t[1].t = "str" THEN t[1].v ELSE "", t[2],
                       IF Len(t) >= 3 THEN t[3] ELSE VNone,
                       IF Len(t) = 4 THEN t[4] ELSE VNone),
                  Len(h) + 1)

\* the Axis objects ids followed by those of the outcome rest
Prepend(ids, rest) ==
    IF rest.err # "none" THEN rest ELSE Axes(rest.h, ids \o rest.axes)

RECURSIVE AxesOfEach(_, _)

\* the comprehension of AxesOfEach after its first Axis(...), of outcome a
AxesOfRest(a, items) ==
    IF a.err # "none" THEN a ELSE Prepend(a.axes, AxesOfEach(a.h, items))

\* [Axis(*axis) for axis in axes], and the same for slices: an exception
\* ends the comprehension
AxesOfEach(h, items) ==
    IF items = <<>> THEN Axes(h, <<>>)
    ELSE AxesOfRest(AxisOfTuple(h, Head(items).v), Tail(items))

\* Axis._validate_all_same_type(axes, axis_type, axis_type_str)
AllSameType(h, items, type) ==
    \A i \in 1..Len(items) :
        IF type = "Axis" THEN IsAxis(h, items[i]) ELSE items[i].t = type

\* what Axis.get_axis_list(axes) returns or raises, by the shape of axes:
\* Axis objects as they are, tuples and slices to make Axis objects of, or
\* an error
AxisShape(h, axes) ==
    LET items == axes.v
        all(type, shape) == IF AllSameType(h, items, type) THEN shape
                            ELSE "InvalidAxisShape"
    IN  CASE IsAxis(h, axes) -> "object"
          [] axes.t = "slice" -> "one"
          [] axes.t = "tuple" ->
                IF Len(items) = 0 THEN "IndexError"
                ELSE IF IsAxis(h, items[1]) THEN all("Axis", "objects")
                ELSE IF items[1].t = "str" THEN "one"
                ELSE IF items[1].t = "tuple" THEN all("tuple", "each")
                ELSE IF items[1].t = "slice" THEN all("slice", "each")
                ELSE "InvalidAxisShape"
          [] axes.t = "list" ->
                IF Len(items) = 0 THEN "IndexError"
                ELSE IF IsAxis(h, items[1]) THEN all("Axis", "objects")
                ELSE IF items[1].t = "tuple" THEN all("tuple", "each")
                ELSE "InvalidAxisShape"
          [] OTHER -> "InvalidAxisShape"

\* Axis.get_axis_list(axes)
get_axis_list(h, axes) ==
    LET shape == AxisShape(h, axes)
    IN  CASE shape = "object" -> Axes(h, <<axes.v>>)
          [] shape = "objects" -> Axes(h, [i \in 1..Len(axes.v) |-> axes.v[i].v])
          [] shape \in {"one", "each"} ->
                AxesOfEach(h, IF shape = "one" THEN <<axes>> ELSE axes.v)
          [] OTHER -> NoAxes(h, shape)

\* the list of the Axis objects ids, as a value
AxisList(ids) == VList([i \in 1..Len(ids) |-> VNode(ids[i])])

\* the number a scale factor is compared as: True is 1 and False is 0
Number(x) == IF x.t = "bool" THEN (IF x.v THEN 1 ELSE 0) ELSE x.v

\* Scale._validate_scale_factor(scale_factor): the error raised, if any;
\* nan <= 0 is False
validate_scale_factor(scale_factor) ==
    IF scale_factor.t \notin {"float", "float nan", "int", "bool"}
      THEN "InvalidScaleFactor"
    ELSE IF scale_factor.t # "float nan" /\ Number(scale_factor) <= 0
      THEN "InvalidScaleFactor"
    ELSE "none"

\* the scale targets of a Scale that are set
ScaleTargets(sc) ==
    {f \in {"axis_subsets", "another_coverage", "scale_factor", "scale_factors"} :
        ~IsNone(CASE f = "axis_subsets" -> sc.axis_subsets
                  [] f = "another_coverage" -> sc.another_coverage
                  [] f = "scale_factor" -> sc.scale_factor
                  [] OTHER -> sc.scale_factors)}

\* Scale._validate_exclusive(self), at the end of each setter
validate_exclusive(h, self) ==
    IF Cardinality(ScaleTargets(h[self])) > 1
      THEN Fail(h, "ConflictingConfiguration") ELSE Done(h)

\* the last statement of each setter, after the statements before it left
\* the outcome r
ValidatedExclusive(r, self) ==
    IF r.err # "none" THEN r ELSE validate_exclusive(r.h, self)

\* Scale.to_explicit_grid_domain after Axis.get_axis_list returned g: the
\* field is assigned and each axis is added as an operand
WithAxisSubsets(g, self) ==
    IF g.err # "none" THEN Fail(g.h, g.err)
    ELSE AddOperands([g.h EXCEPT ![self].axis_subsets = AxisList(g.axes)],
                     self, AxisList(g.axes).v)

\* Scale.to_explicit_grid_domain(self, grid_axes)
to_explicit_grid_domain(h, self, grid_axes) ==
    ValidatedExclusive(WithAxisSubsets(get_axis_list(h, grid_axes), self), self)

\* Scale.to_grid_domain_of(self, another_coverage)
to_grid_domain_of(h, self, another_coverage) ==
    ValidatedExclusive(
        add_operand([h EXCEPT ![self].another_coverage = another_coverage],
                    self, another_coverage),
        self)

\* Scale.by_factor(self, scale_factor)
by_factor(h, self, scale_factor) ==
    IF validate_scale_factor(scale_factor) # "none"
      THEN Fail(h, validate_scale_factor(scale_factor))
    ELSE ValidatedExclusive(
             add_operand([h EXCEPT ![self].scale_factor = scale_factor],
                         self, scale_factor),
             self)

\* the checks of Scale.by_factor_per_axis on an axis: the error raised, if any
validate_factor_axis(axis) ==
    IF ~IsNone(axis.high) THEN "InvalidAxisConstraint"
    ELSE IF ~IsNone(axis.crs) THEN "InvalidAxisConstraint"
    ELSE validate_scale_factor(axis.low)

RECURSIVE AddFactorAxes(_, _, _)

\* the loop of Scale.by_factor_per_axis after add_operand(axis) left the
\* outcome r: the axis is checked, and the loop goes on with the axes left
CheckedFactorAxis(r, axis, self, axes) ==
    IF r.err # "none" THEN r
    ELSE IF validate_factor_axis(axis) # "none"
      THEN Fail(r.h, validate_factor_axis(axis))
    ELSE AddFactorAxes(r.h, self, axes)

\* the loop of Scale.by_factor_per_axis over the axes: each is added as an
\* operand and then checked
AddFactorAxes(h, self, axes) ==
    IF axes = <<>> THEN Done(h)
    ELSE CheckedFactorAxis(add_operand(h, self, VNode(Head(axes))),
                           h[Head(axes)], self, Tail(axes))

\* Scale.by_factor_per_axis after Axis.get_axis_list returned g: the field
\* is assigned and the loop over the axes runs
WithScaleFactors(g, self) ==
    IF g.err # "none" THEN Fail(g.h, g.err)
    ELSE AddFactorAxes([g.h EXCEPT ![self].scale_factors = AxisList(g.axes)],
                       self, g.axes)

\* Scale.by_factor_per_axis(self, scale_factors)
by_factor_per_axis(h, self, scale_factors) ==
    ValidatedExclusive(WithScaleFactors(get_axis_list(h, scale_factors), self), self)

Scales == {n \in NodeIds : nodes[n].kind = "Scale"}

\* whether the heap h and the operands of the Scale are within the bounds
ScaleFits(h, self) ==
    Len(h) <= MaxScaleNodes /\ Len(h[self].operands) <= MaxScaleOperands

\* Scale(op)
NewScale(op) ==
    LET r == NewExpr(nodes, Blank("Scale"), <<op>>)
    IN  /\ Len(r.h) <= MaxScaleNodes
        /\ nodes' = r.h
        /\ last' = Call("Scale", Len(nodes) + 1, <<op>>, r.err, <<>>)

ToExplicitGridDomain(self, grid_axes) ==
    LET r == to_explicit_grid_domain(nodes, self, grid_axes)
    IN  /\ ScaleFits(r.h, self)
        /\ nodes' = r.h
        /\ last' = Call("to_explicit_grid_domain", self, <<grid_axes>>, r.err, <<>>)

ToGridDomainOf(self, another_coverage) ==
    LET r == to_grid_domain_of(nodes, self, another_coverage)
    IN  /\ ScaleFits(r.h, self)
        /\ nodes' = r.h
        /\ last' = Call("to_grid_domain_of", self, <<another_coverage>>, r.err, <<>>)

ByFactor(self, scale_factor) ==
    LET r == by_factor(nodes, self, scale_factor)
    IN  /\ ScaleFits(r.h, self)
        /\ nodes' = r.h
        /\ last' = Call("by_factor", self, <<scale_factor>>, r.err, <<>>)

ByFactorPerAxis(self, scale_factors) ==
    LET r == by_factor_per_axis(nodes, self, scale_factors)
    IN  /\ ScaleFits(r.h, self)
        /\ nodes' = r.h
        /\ last' = Call("by_factor_per_axis", self, <<scale_factors>>, r.err, <<>>)

\* the axis specifications passed to the setters: an Axis, lists of Axis
\* objects, an axis tuple, and shapes that are rejected
AxesArgs ==
    LET axes == {VNode(n) : n \in {m \in NodeIds : nodes[m].kind = "Axis"}}
    IN  axes \cup {VList(<<a>>) : a \in axes}
             \cup {VTuple(<<VStr("X"), VInt(2)>>), VList(<<>>), VOther}
             \cup {VTuple(<<VStr("X"), f>>) : f \in {VInt(0), VNaN}}
             \cup {VTuple(<<VStr("X"), VInt(2), VInt(3)>>),
                   VTuple(<<VStr("X"), VInt(2), VNone, VStr("EPSG:4326")>>)}

\* the coverages passed to to_grid_domain_of
CoverageArgs ==
    {VNode(n) : n \in {m \in NodeIds : nodes[m].kind = "Datacube"}} \cup {VNone, VOther}

\* the factors passed to by_factor
FactorArgs == {VInt(2), VInt(0), VStr("2"), VNaN}

NextScale ==
    \/ NewDatacube("A")
    \/ NewAxis("X", VInt(1), VNone, VNone)
    \/ \E op \in CoverageArgs : IsNode(op) /\ Cardinality(Scales) = 0 /\ NewScale(op)
    \/ \E self \in Scales, grid_axes \in AxesArgs : ToExplicitGridDomain(self, grid_axes)
    \/ \E self \in Scales, c \in CoverageArgs : ToGridDomainOf(self, c)
    \/ \E self \in Scales, f \in FactorArgs : ByFactor(self, f)
    \/ \E self \in Scales, fs \in AxesArgs : ByFactorPerAxis(self, fs)
    \/ \E self \in Scales : StrCall(self)

SpecScale == Init /\ [][NextScale]_vars

\* the setters of the scale target
ModeSetters ==
    {"to_explicit_grid_domain", "to_grid_domain_of", "by_factor", "by_factor_per_axis"}

\* C10: a Scale accepts exactly one of its four modes: after a mode setter
\* has returned and set its target, every further mode-setter call on the same
\* Scale raises ConflictingConfiguration.
C10_FurtherSetterConflicts ==
    [][(/\ last.call \in ModeSetters /\ last.err = "none"
        /\ ScaleTargets(nodes[last.self]) # {}
        /\ last'.call \in ModeSetters /\ last'.self = last.self)
       => last'.err = "ConflictingConfiguration"]_vars

\* a number greater than 0: an int or a float (True is the int 1) that
\* compares greater than 0, which nan does not
IsPositiveNumber(x) == x.t \in {"int", "float", "bool"} /\ Number(x) > 0

\* C11: by_factor(f) raises InvalidScaleFactor unless f is a number greater
\* than 0; by_factor_per_axis returns only if every axis entry has a factor
\* greater than 0 and neither a high bound nor a CRS, and raises
\* InvalidScaleFactor or InvalidAxisConstraint otherwise.
C11_ScaleFactorsValidated ==
    [][/\ (last'.call = "by_factor" /\ ~IsPositiveNumber(last'.args[1]))
            => last'.err = "InvalidScaleFactor"
       /\ (last'.call = "by_factor_per_axis" /\ last'.err = "none") =>
            LET axes == nodes'[last'.self].scale_factors.v
            IN  \A i \in 1..Len(axes) :
                    LET axis == nodes'[axes[i].v]
                    IN  /\ IsPositiveNumber(axis.low)
                        /\ IsNone(axis.high) /\ IsNone(axis.crs)
    ]_vars

-----------------------------------------------------------------------------
(* SpecAxes: Axis.get_axis_list applied to axis specifications of every    *)
(* shape, accepted and not                                                 *)

\* the axes a caller specifies, each as (axis_name, low[, high[, crs]])
AxisSpecs ==
    {<< <<VStr("X"), VInt(1)>> >>,
     << <<VStr("X"), VInt(1), VInt(5)>> >>,
     << <<VStr("X"), VInt(1), VInt(5), VStr("EPSG:4326")>> >>,
     << <<VStr("X"), VInt(1)>>, <<VStr("Y"), VInt(2), VInt(3)>> >>}

\* the shapes in which a caller writes the axes down
Shapes ==
    {"Axis", "slice", "tuple", "tuple of Axis", "list of Axis",
     "tuple of tuples", "list of tuples", "tuple of slices", "list of slices"}

\* whether the axes can be written in the shape: one axis in the single
\* shapes, and no CRS in a slice "X":low:high
Writable(shape, axes) ==
    /\ shape \in {"Axis", "slice", "tuple"} => Len(axes) = 1
    /\ shape \in {"slice", "tuple of slices", "list of slices"}
          => \A i \in 1..Len(axes) : Len(axes[i]) <= 3

\* the slice "name":low[:high] of an axis
SliceOf(t) == VSlice(t[1], t[2], IF Len(t) >= 3 THEN t[3] ELSE VNone)

\* the value a caller passes for the axes in the shape; made holds the
\* Axis objects the caller constructed for the shapes of Axis objects
Written(shape, axes, made) ==
    LET objects == [i \in 1..Len(made) |-> VNode(made[i])]
        tuples == [i \in 1..Len(axes) |-> VTuple(axes[i])]
        slices == [i \in 1..Len(axes) |-> SliceOf(axes[i])]
    IN  CASE shape = "Axis" -> objects[1]
          [] shape = "slice" -> slices[1]
          [] shape = "tuple" -> tuples[1]
          [] shape = "tuple of Axis" -> VTuple(objects)
          [] shape = "list of Axis" -> VList(objects)
          [] shape = "tuple of tuples" -> VTuple(tuples)
          [] shape = "list of tuples" -> VList(tuples)
          [] shape = "tuple of slices" -> VTuple(slices)
          [] OTHER -> VList(slices)

\* the Axis objects the caller constructs before the call, Axis(*t) each
MadeByCaller(h, shape, axes) ==
    IF shape \in {"Axis", "tuple of Axis", "list of Axis"}
      THEN AxesOfEach(h, [i \in 1..Len(axes) |-> VTuple(axes[i])])
    ELSE Axes(h, <<>>)

\* Axis.get_axis_list(axes written in the shape)
GetAxisList(shape, axes) ==
    /\ Writable(shape, axes)
    /\ \E made \in {MadeByCaller(nodes, shape, axes)} :
       \E g \in {get_axis_list(made.h, Written(shape, axes, made.axes))} :
          /\ Len(g.h) <= MaxAxesNodes
          /\ nodes' = g.h
          /\ last' = Returned("get_axis_list", 0,
                              <<Written(shape, axes, made.axes), VStr(shape), VList(axes)>>,
                              g.err, g.axes)

\* values that are in none of the shapes: empty collections, values and
\* elements of other types, an axis tuple with too few or too many elements,
\* and collections that mix Axis objects, tuples and slices
Misshapen ==
    LET axis == {VNode(n) : n \in {m \in NodeIds : nodes[m].kind = "Axis"}}
        tup == VTuple(<<VStr("Y"), VInt(2)>>)
        slc == VSlice(VStr("Y"), VInt(2), VNone)
    IN  {VTuple(<<>>), VList(<<>>), VNone, VOther, VInt(1),
         VTuple(<<VInt(1)>>), VList(<<VInt(1)>>),
         VTuple(<<VStr("X")>>),
         VTuple(<<VStr("X"), VInt(1), VInt(2), VStr("EPSG:4326"), VInt(3)>>),
         VTuple(<<tup, slc>>), VTuple(<<slc, tup>>), VList(<<tup, slc>>)}
        \cup {VTuple(<<a, tup>>) : a \in axis} \cup {VTuple(<<tup, a>>) : a \in axis}
        \cup {VList(<<a, tup>>) : a \in axis} \cup {VList(<<tup, a>>) : a \in axis}
        \cup {VTuple(<<slc, a>>) : a \in axis} \cup {VList(<<a, VInt(1)>>) : a \in axis}

\* Axis.get_axis_list(axes) for a value in none of the shapes
GetAxisListOf(axes) ==
    \E g \in {get_axis_list(nodes, axes)} :
       /\ Len(g.h) <= MaxAxesNodes
       /\ nodes' = g.h
       /\ last' = Returned("get_axis_list", 0, <<axes, VStr("none")>>, g.err, g.axes)

NextAxes ==
    \/ NewAxis("X", VInt(1), VNone, VNone)
    \/ \E shape \in Shapes, axes \in AxisSpecs : GetAxisList(shape, axes)
    \/ \E axes \in Misshapen : GetAxisListOf(axes)

SpecAxes == Init /\ [][NextAxes]_vars

\* an axis written as (axis_name, low, high, crs), None where left out
Padded(t) ==
    <<t[1].v, t[2], IF Len(t) >= 3 THEN t[3] ELSE VNone,
      IF Len(t) = 4 THEN t[4] ELSE VNone>>

\* the name, bounds and CRS of the Axis objects ids, in their order
Canonical(h, ids) ==
    [i \in 1..Len(ids) |->
        <<h[ids[i]].axis_name, h[ids[i]].low, h[ids[i]].high, h[ids[i]].crs>>]

\* whether the call returned Axis objects with the names, bounds and CRS
\* of the axes, in their order
ReturnedCanonical(c, h, axes) ==
    /\ c.err = "none"
    /\ Len(c.ret) = Len(axes)
    /\ \A i \in 1..Len(c.ret) : h[c.ret[i]].kind = "Axis"
    /\ Canonical(h, c.ret) = [i \in 1..Len(axes) |-> Padded(axes[i])]

\* C12: Axis.get_axis_list accepts every shape (an Axis, a slice, a tuple
\* or list of Axis objects, an axis tuple, a tuple or list of axis tuples, a
\* tuple or list of slices) and returns for the same axes the same list:
\* the names, bounds and CRS, in the order written.
C12_EveryShapeSameList ==
    (last.call = "get_axis_list" /\ last.args[2].v \in Shapes)
        => ReturnedCanonical(last, nodes, last.args[3].v)

\* C12 amended: every shape but the list of slices is accepted and returns
\* the names, bounds and CRS of the axes in the order written; a list of
\* slices raises InvalidAxisShape.
C12_EveryShapeButListOfSlices ==
    (last.call = "get_axis_list" /\ last.args[2].v \in Shapes) =>
        IF last.args[2].v = "list of slices"
          THEN last.err = "InvalidAxisShape" /\ last.ret = <<>>
        ELSE ReturnedCanonical(last, nodes, last.args[3].v)

\* C12 witness: two axes written as a tuple of slices came back as two Axis
\* objects, X(1) and Y(2:3)
C12_Witness ==
    /\ last.call = "get_axis_list" /\ last.err = "none"
    /\ last.args[2] = VStr("tuple of slices")
    /\ Len(last.ret) = 2
    /\ Canonical(nodes, last.ret)
         = << <<"X", VInt(1), VNone, VNone>>, <<"Y", VInt(2), VInt(3), VNone>> >>

\* C13: Axis.get_axis_list raises InvalidAxisShape for every value that is
\* in none of the accepted shapes, empty tuples and lists and elements of
\* other types among them, and for every tuple or list that mixes Axis
\* objects, tuples and slices, wherever the odd element is.
C13_MisshapenRaisesInvalidAxisShape ==
    (last.call = "get_axis_list" /\ last.args[2] = VStr("none"))
        => last.err = "InvalidAxisShape"

-----------------------------------------------------------------------------
(* SpecReproject: Reproject objects, their constructor arguments and the   *)
(* three optional refinements                                              *)

\* the values of the enumeration ResampleAlg, in the order of ResampleAlg.list()
ResampleAlg ==
    <<"near", "bilinear", "cubic", "cubicspline", "lanczos", "average", "mode",
      "max", "min", "med", "q1", "q3">>

\* `not x` for the values passed as a CRS
Falsy(x) ==
    CASE x.t = "None" -> TRUE
      [] x.t = "str" -> x.v = ""
      [] x.t = "int" -> x.v = 0
      [] x.t = "bool" -> ~x.v
      [] OTHER -> FALSE

\* Reproject._validate_crs(self, crs): the error raised, if any
validate_crs(crs) == IF Falsy(crs) THEN "EmptyCrs" ELSE "none"

IsBlank(word) == word \in {" ", "\t", "\n"}

\* str.strip() of a str given by its words and blanks
RECURSIVE strip(_)
strip(words) ==
    IF words = <<>> THEN <<>>
    ELSE IF IsBlank(Head(words)) THEN strip(Tail(words))
    ELSE IF IsBlank(words[Len(words)]) THEN strip(SubSeq(words, 1, Len(words) - 1))
    ELSE words

\* the outcome of a validation that returns a value
Valid(value) == [err |-> "none", value |-> value]
Invalid(e) == [err |-> e, value |-> VNone]

\* _validate_interpolation_method that takes any string
validate_interpolation_method_any_str(method) ==
    IF IsNone(method) THEN Valid(VNone)
    ELSE IF method.t = "str" THEN Valid(VWords(strip(method.v)))
    ELSE IF method.t = "ResampleAlg" THEN Valid(method)
    ELSE Invalid("InvalidInterpolation")

\* Reproject._validate_interpolation_method(self, method): a string is
\* stripped and then looked up in ResampleAlg.list()
validate_interpolation_method(method) ==
    IF IsNone(method) THEN Valid(VNone)
    ELSE IF method.t = "str"
      THEN IF Len(strip(method.v)) = 1 /\ strip(method.v)[1] \in Range(ResampleAlg)
             THEN Valid(VWords(strip(method.v)))
           ELSE Invalid("InvalidInterpolation")
    ELSE IF method.t = "ResampleAlg" THEN Valid(method)
    ELSE Invalid("InvalidInterpolation")

\* Reproject.__init__ after super().__init__ left the outcome r: the two
\* arguments are validated and assigned in turn
ReprojectFields(r, self, target_crs, method) ==
    IF r.err # "none" THEN r
    ELSE IF validate_crs(target_crs) # "none" THEN Fail(r.h, validate_crs(target_crs))
    ELSE IF method.err # "none"
      THEN Fail([r.h EXCEPT ![self].target_crs = target_crs], method.err)
    ELSE Done([r.h EXCEPT ![self].target_crs = target_crs,
                          ![self].interpolation_method = method.value,
                          ![self].axis_resolutions = VNone,
                          ![self].axis_subsets = VNone,
                          ![self].subset_domain = VNone])

\* Reproject.__init__(self, op, target_crs, interpolation_method) for a new
\* object
Reproject(h, op, target_crs, interpolation_method) ==
    ReprojectFields(NewExpr(h, [Blank("Reproject") EXCEPT
                                  !.target_crs = VUnset,
                                  !.interpolation_method = VUnset,
                                  !.axis_resolutions = VUnset,
                                  !.axis_subsets = VUnset,
                                  !.subset_domain = VUnset], <<op>>),
                    Len(h) + 1, target_crs,
                    validate_interpolation_method(interpolation_method))

\* the checks of to_axis_resolutions ("resolutions") and of subset_by_axes
\* ("subsets") on an axis: the error raised, if any
validate_reproject_axis(refinement, axis) ==
    IF refinement = "resolutions" /\ ~IsNone(axis.high) THEN "InvalidAxisConstraint"
    ELSE IF refinement = "subsets" /\ IsNone(axis.high) THEN "InvalidAxisConstraint"
    ELSE IF ~IsNone(axis.crs) THEN "InvalidAxisConstraint"
    ELSE "none"

RECURSIVE AddReprojectAxes(_, _, _, _)

\* the loop of to_axis_resolutions and of subset_by_axes after
\* add_operand(axis) left the outcome r: the axis is checked, and the loop
\* goes on with the axes left
CheckedReprojectAxis(r, axis, self, axes, refinement) ==
    IF r.err # "none" THEN r
    ELSE IF validate_reproject_axis(refinement, axis) # "none"
      THEN Fail(r.h, validate_reproject_axis(refinement, axis))
    ELSE AddReprojectAxes(r.h, self, axes, refinement)

\* the loop of to_axis_resolutions and of subset_by_axes over the axes
AddReprojectAxes(h, self, axes, refinement) ==
    IF axes = <<>> THEN Done(h)
    ELSE CheckedReprojectAxis(add_operand(h, self, VNode(Head(axes))),
                              h[Head(axes)], self, Tail(axes), refinement)

\* to_axis_resolutions after Axis.get_axis_list returned g
WithAxisResolutions(g, self) ==
    IF g.err # "none" THEN Fail(g.h, g.err)
    ELSE AddReprojectAxes([g.h EXCEPT ![self].axis_resolutions = AxisList(g.axes)],
                          self, g.axes, "resolutions")

\* Reproject.to_axis_resolutions(self, axis_resolutions)
to_axis_resolutions(h, self, axis_resolutions) ==
    WithAxisResolutions(get_axis_list(h, axis_resolutions), self)

\* subset_by_axes after Axis.get_axis_list returned g
WithReprojectSubsets(g, self) ==
    IF g.err # "none" THEN Fail(g.h, g.err)
    ELSE AddReprojectAxes([g.h EXCEPT ![self].axis_subsets = AxisList(g.axes)],
                          self, g.axes, "subsets")

\* Reproject.subset_by_axes(self, axis_subsets)
subset_by_axes(h, self, axis_subsets) ==
    WithReprojectSubsets(get_axis_list(h, axis_subsets), self)

\* Reproject.subset_by_coverage_domain(self, subset_domain)
subset_by_coverage_domain(h, self, subset_domain) ==
    IF ~IsNode(subset_domain) THEN Fail(h, "InvalidOperand")
    ELSE add_operand([h EXCEPT ![self].subset_domain = subset_domain],
                     self, subset_domain)

\* the Reproject objects a caller holds: those whose constructor returned
Reprojects ==
    {n \in NodeIds : nodes[n].kind = "Reproject" /\ nodes[n].subset_domain # VUnset}

\* whether the heap h and the operands of the Reproject are within the bounds
ReprojectFits(h, self) ==
    Len(h) <= MaxReprojectNodes /\ Len(h[self].operands) <= MaxReprojectOperands

\* Reproject(op, target_crs, interpolation_method)
NewReproject(op, target_crs, interpolation_method) ==
    \E r \in {Reproject(nodes, op, target_crs, interpolation_method)} :
        /\ Cardinality({n \in NodeIds : nodes[n].kind = "Reproject"}) < MaxReprojects
        /\ Len(r.h) <= MaxReprojectNodes
        /\ nodes' = r.h
        /\ last' = Call("Reproject", Len(nodes) + 1,
                        <<op, target_crs, interpolation_method>>, r.err, <<>>)

ToAxisResolutions(self, axis_resolutions) ==
    \E r \in {to_axis_resolutions(nodes, self, axis_resolutions)} :
        /\ ReprojectFits(r.h, self)
        /\ nodes' = r.h
        /\ last' = Call("to_axis_resolutions", self, <<axis_resolutions>>, r.err, <<>>)

SubsetByAxes(self, axis_subsets) ==
    \E r \in {subset_by_axes(nodes, self, axis_subsets)} :
        /\ ReprojectFits(r.h, self)
        /\ nodes' = r.h
        /\ last' = Call("subset_by_axes", self, <<axis_subsets>>, r.err, <<>>)

SubsetByCoverageDomain(self, subset_domain) ==
    \E r \in {subset_by_coverage_domain(nodes, self, subset_domain)} :
        /\ ReprojectFits(r.h, self)
        /\ nodes' = r.h
        /\ last' = Call("subset_by_coverage_domain", self, <<subset_domain>>,
                        r.err, <<>>)

\* the target CRS passed to the constructor: a CRS, the empty string, None
CrsArgs == {VStr("EPSG:4326"), VStr(""), VNone}

\* the interpolation methods passed to the constructor: none, members of
\* ResampleAlg, their values as strings (bare and padded with blanks), and
\* values that are no method
MethodArgs ==
    {VNone, VResampleAlg("bilinear"), VWords(<<"near">>), VWords(<<" ", "near", " ">>),
     VWords(<<"foo">>), VWords(<<>>), VWords(<<"near", " ", "max">>), VInt(3)}

\* the axis specifications passed to the two setters that take axes
ReprojectAxesArgs ==
    {VTuple(<<VStr("X"), VInt(1)>>), VTuple(<<VStr("X"), VInt(1), VInt(2)>>),
     VTuple(<<VStr("X"), VInt(1), VInt(2), VStr("EPSG:4326")>>), VOther}

NextReproject ==
    \/ NewDatacube("A")
    \/ \E op \in CoverageArgs, crs \in CrsArgs, method \in MethodArgs :
          IsNode(op) /\ NewReproject(op, crs, method)
    \/ \E self \in Reprojects, axes \in ReprojectAxesArgs : ToAxisResolutions(self, axes)
    \/ \E self \in Reprojects, axes \in ReprojectAxesArgs : SubsetByAxes(self, axes)
    \/ \E self \in Reprojects, c \in CoverageArgs : SubsetByCoverageDomain(self, c)
    \/ \E self \in Reprojects : StrCall(self)

SpecReproject == Init /\ [][NextReproject]_vars

\* C14: on a Reproject the crop by axis subsets and the crop to the domain of
\* another coverage are mutually exclusive: no Reproject has both set; either
\* of them is accepted on a Reproject that has axis resolutions.
C14_CropsExclusive ==
    [][/\ \A n \in Reprojects' :
            IsNone(nodes'[n].axis_subsets) \/ IsNone(nodes'[n].subset_domain)
       /\ (/\ last'.call \in {"subset_by_axes", "subset_by_coverage_domain"}
           /\ ~IsNone(nodes[last'.self].axis_resolutions)
           /\ IsNone(nodes[last'.self].axis_subsets)
           /\ IsNone(nodes[last'.self].subset_domain)
           /\ last'.args[1] \in {VTuple(<<VStr("X"), VInt(1), VInt(2)>>)}
                                  \cup {VNode(n) : n \in NodeIds})
          => last'.err = "none"
    ]_vars

\* an interpolation method that is one of the values of ResampleAlg: a
\* member of the enumeration, or a string equal to its value
IsResampleAlg(method) ==
    \/ method.t = "ResampleAlg" /\ method.v \in Range(ResampleAlg)
    \/ method.t = "str" /\ Len(method.v) = 1 /\ method.v[1] \in Range(ResampleAlg)

\* the text has an interpolation clause: a value of ResampleAlg in braces
HasInterpolationClause(txt) ==
    \E i \in 2..Len(txt) : txt[i] \in Range(ResampleAlg) /\ txt[i - 1] = ", { "

\* C15 as stated: constructing a Reproject raises EmptyCrs when the target
\* CRS is empty, and InvalidInterpolation when an interpolation method is
\* given that is not one of the values of ResampleAlg; with the method None
\* it returns, and the text rendered has no interpolation clause.
C15_ConstructorValidates ==
    [][/\ last'.call = "Reproject" =>
            LET crs == last'.args[2]
                method == last'.args[3]
            IN  /\ Falsy(crs) => last'.err = "EmptyCrs"
                /\ (~Falsy(crs) /\ ~IsNone(method) /\ ~IsResampleAlg(method))
                      => last'.err = "InvalidInterpolation"
                /\ (~Falsy(crs) /\ IsNone(method)) => last'.err = "none"
       /\ (/\ last'.call = "str" /\ last'.err = "none"
           /\ IsNone(nodes[last'.self].interpolation_method))
            => ~HasInterpolationClause(last'.txt)
    ]_vars

\* C15 with the string stripped first: constructing a Reproject raises
\* EmptyCrs when the target CRS is empty, and InvalidInterpolation when an
\* interpolation method is given that, a string being stripped of the blanks
\* around it, is not one of the values of ResampleAlg; with the method None it
\* returns, and the text rendered has no interpolation clause.
C15_ConstructorValidatesStripped ==
    [][/\ last'.call = "Reproject" =>
            LET crs == last'.args[2]
                method == last'.args[3]
                stripped == IF method.t = "str" THEN VWords(strip(method.v)) ELSE method
            IN  /\ Falsy(crs) => last'.err = "EmptyCrs"
                /\ (~Falsy(crs) /\ ~IsNone(method) /\ ~IsResampleAlg(stripped))
                      => last'.err = "InvalidInterpolation"
                /\ (~Falsy(crs) /\ IsNone(method)) => last'.err = "none"
       /\ (/\ last'.call = "str" /\ last'.err = "none"
           /\ IsNone(nodes[last'.self].interpolation_method))
            => ~HasInterpolationClause(last'.txt)
    ]_vars

\* a Reproject made without an interpolation method was rendered, after one
\* with a method that is no value of ResampleAlg would have been refused
C15_Witness ==
    /\ last.call = "str" /\ last.err = "none"
    /\ nodes[last.self].kind = "Reproject"
    /\ IsNone(nodes[last.self].interpolation_method)
    /\ ~IsNone(nodes[last.self].axis_resolutions)
    /\ Reproject(nodes, VNode(1), VStr("EPSG:4326"), VWords(<<"foo">>)).err
         = "InvalidInterpolation"
    /\ Reproject(nodes, VNode(1), VStr(""), VNone).err = "EmptyCrs"

-----------------------------------------------------------------------------
(* SpecAxisIter: AxisIter objects and the three setters of the iteration   *)
(* domain                                                                  *)

\* of_grid_axis without the test of the interval
of_grid_axis_interval_unchecked(h, self, cov_expr) ==
    IF ~IsNode(cov_expr) THEN Fail(h, "InvalidOperand")
    ELSE IF ~IsNone(h[self].geo_axis) THEN Fail(h, "ConflictingIterationDomain")
    ELSE add_operand([h EXCEPT ![self].grid_axis = cov_expr], self, cov_expr)

\* AxisIter.of_grid_axis(self, cov_expr)
of_grid_axis(h, self, cov_expr) ==
    IF ~IsNode(cov_expr) THEN Fail(h, "InvalidOperand")
    ELSE IF ~IsNone(h[self].geo_axis) THEN Fail(h, "ConflictingIterationDomain")
    ELSE IF ~IsNone(h[self].low) \/ ~IsNone(h[self].high)
      THEN Fail(h, "ConflictingIterationDomain")
    ELSE add_operand([h EXCEPT ![self].grid_axis = cov_expr], self, cov_expr)

\* AxisIter.of_geo_axis(self, cov_expr)
of_geo_axis(h, self, cov_expr) ==
    IF ~IsNode(cov_expr) THEN Fail(h, "InvalidOperand")
    ELSE IF ~IsNone(h[self].grid_axis) THEN Fail(h, "ConflictingIterationDomain")
    ELSE IF ~IsNone(h[self].low) \/ ~IsNone(h[self].high)
      THEN Fail(h, "ConflictingIterationDomain")
    ELSE add_operand([h EXCEPT ![self].geo_axis = cov_expr], self, cov_expr)

AxisIters == {n \in NodeIds : nodes[n].kind = "AxisIter"}

\* whether the heap h and the operands of the AxisIter are within the bounds
IterFits(h, self) == Len(h) <= MaxIterNodes /\ Len(h[self].operands) <= MaxIterOperands

OfGridAxis(self, cov_expr) ==
    \E r \in {of_grid_axis(nodes, self, cov_expr)} :
        /\ IterFits(r.h, self)
        /\ nodes' = r.h
        /\ last' = Call("of_grid_axis", self, <<cov_expr>>, r.err, <<>>)

OfGeoAxis(self, cov_expr) ==
    \E r \in {of_geo_axis(nodes, self, cov_expr)} :
        /\ IterFits(r.h, self)
        /\ nodes' = r.h
        /\ last' = Call("of_geo_axis", self, <<cov_expr>>, r.err, <<>>)

\* the bounds passed to interval: numbers, a string, an expression, and
\* values that are no bound
BoundArgs ==
    {VInt(0), VStr("a"), VNone}
        \cup {VNode(n) : n \in {m \in NodeIds : nodes[m].kind = "Datacube"}}

NextAxisIter ==
    \/ Len(nodes) < MaxIterNodes /\ NewDatacube("A")
    \/ Len(nodes) < MaxIterNodes /\ NewAxisIter("x", "X")
    \/ \E self \in AxisIters, low \in BoundArgs, high \in {VInt(10), VOther} :
          Interval(self, low, high)
    \/ \E self \in AxisIters, c \in CoverageArgs : OfGridAxis(self, c)
    \/ \E self \in AxisIters, c \in CoverageArgs : OfGeoAxis(self, c)
    \/ \E self \in AxisIters : StrCall(self)

SpecAxisIter == Init /\ [][NextAxisIter]_vars

\* the setters of the iteration domain, and the domain each of them sets
DomainSetters == {"interval", "of_grid_axis", "of_geo_axis"}
DomainOf(setter) ==
    CASE setter = "interval" -> "interval"
      [] setter = "of_grid_axis" -> "grid_axis"
      [] OTHER -> "geo_axis"

\* the iteration domains of an AxisIter that are set
DomainsSet(it) ==
    {d \in {"interval", "grid_axis", "geo_axis"} :
        CASE d = "interval" -> ~IsNone(it.low) \/ ~IsNone(it.high)
          [] d = "grid_axis" -> ~IsNone(it.grid_axis)
          [] OTHER -> ~IsNone(it.geo_axis)}

\* the arguments of a setter call are of the types the setter takes
DomainArgsValid(c) ==
    IF c.call = "interval" THEN IsBoundType(c.args[1]) /\ IsBoundType(c.args[2])
    ELSE IsNode(c.args[1])

\* C16: the three domain setters of an AxisIter are mutually exclusive: once
\* one of them has set its domain, a call of another one raises
\* ConflictingIterationDomain (no call of another one returns), and after
\* any sequence of setter calls, failed ones included, at most one of the
\* interval bounds, the grid axis and the geo axis is set.
C16_OneIterationDomain ==
    [][/\ \A n \in 1..Len(nodes') :
            nodes'[n].kind = "AxisIter" => Cardinality(DomainsSet(nodes'[n])) <= 1
       /\ (/\ last'.call \in DomainSetters
           /\ DomainsSet(nodes[last'.self]) \ {DomainOf(last'.call)} # {})
          => /\ last'.err # "none"
             /\ DomainArgsValid(last') => last'.err = "ConflictingIterationDomain"
             /\ DomainsSet(nodes'[last'.self]) = DomainsSet(nodes[last'.self])
    ]_vars

\* a setter was refused on an AxisIter whose domain another setter had set
C16_Witness ==
    /\ last.call \in DomainSetters /\ last.err = "ConflictingIterationDomain"
    /\ DomainArgsValid(last)
    /\ Cardinality(DomainsSet(nodes[last.self])) = 1
    /\ DomainOf(last.call) \notin DomainsSet(nodes[last.self])

-----------------------------------------------------------------------------
(* SpecCondense: Condense objects, their iterators and their clauses *)

\* the values of the enumeration CondenseOp, in the order of CondenseOp.list()
CondenseOp == <<"+", "*", "min", "max", "and", "or", "overlay">>

\* Condense._validate_condense_op(self, op): a string is stripped and then
\* looked up in CondenseOp.list()
validate_condense_op(op) ==
    IF IsNone(op) THEN Invalid("InvalidCondenseOp")
    ELSE IF op.t = "str"
      THEN IF Len(strip(op.v)) = 1 /\ strip(op.v)[1] \in Range(CondenseOp)
             THEN Valid(VWords(strip(op.v)))
           ELSE Invalid("InvalidCondenseOp")
    ELSE IF op.t = "CondenseOp" THEN Valid(op)
    ELSE Invalid("InvalidCondenseOp")

\* isinstance(x, AxisIter)
IsAxisIter(h, x) == IsNode(x) /\ h[x.v].kind = "AxisIter"

\* Condense.__init__ after super().__init__ left the outcome r: the operator
\* is validated, and the fields are assigned in turn
CondenseFields(r, self, op, over, using, where) ==
    IF r.err # "none" THEN r
    ELSE IF op.err # "none" THEN Fail(r.h, op.err)
    ELSE IF ~IsNone(over) /\ over.t # "list"
      THEN Fail([r.h EXCEPT ![self].condense_op = op.value], "InvalidIterator")
    ELSE Done([r.h EXCEPT ![self].condense_op = op.value,
                          ![self].iter_vars = IF IsNone(over) THEN <<>> ELSE over.v,
                          ![self].using_clause = using,
                          ![self].where_clause = where])

\* Condense.__init__(self, condense_op, over, using, where) for a new object.
\* `operands += over` adds the elements of a list or tuple; for an AxisIter
\* it calls over.__radd__(operands), and Add(operands, over) refuses the list
\* as an operand; any other value is not iterable
Condense(h, condense_op, over, using, where) ==
    IF IsAxisIter(h, over)
      THEN Fail(Append(h, [Blank("BinaryOp") EXCEPT !.operator = "+"]), "InvalidOperand")
    ELSE IF over.t \notin {"None", "list", "tuple"} THEN Fail(h, "TypeError")
    ELSE CondenseFields(NewExpr(h, [Blank("Condense") EXCEPT !.condense_op = VUnset,
                                                            !.where_clause = VUnset],
                                <<where, using>> \o (IF IsNone(over) THEN <<>> ELSE over.v)),
                        Len(h) + 1, validate_condense_op(condense_op), over, using, where)

\* the names of the iterator variables a Condense or a Coverage holds
IterNames(h, self) ==
    [i \in 1..Len(h[self].iter_vars) |->
        IF IsAxisIter(h, h[self].iter_vars[i]) THEN h[h[self].iter_vars[i].v].var_name
        ELSE "AttributeError"]

\* the loop of Condense.over: each variable is checked, appended and added
\* as an operand; an exception ends the loop
RECURSIVE over_each(_, _, _)
over_each(h, self, iter_var) ==
    IF iter_var = <<>> THEN Done(h)
    ELSE IF ~IsAxisIter(h, Head(iter_var)) THEN Fail(h, "InvalidIterator")
    ELSE IF h[Head(iter_var).v].var_name \in Range(IterNames(h, self))
      THEN Fail(h, "DuplicateIteratorName")
    ELSE over_each(
             add_operand([h EXCEPT ![self].iter_vars = Append(@, Head(iter_var))],
                         self, Head(iter_var)).h,
             self, Tail(iter_var))

\* Condense.over(self, iter_var)
over(h, self, iter_var) ==
    over_each(h, self, IF iter_var.t = "list" THEN iter_var.v ELSE <<iter_var>>)

\* Condense.using(self, using)
using(h, self, u) == add_operand([h EXCEPT ![self].using_clause = u], self, u)

\* Condense.where(self, where)
where(h, self, w) == add_operand([h EXCEPT ![self].where_clause = w], self, w)

\* the Condense objects a caller holds: those whose constructor returned
Condenses ==
    {n \in NodeIds : nodes[n].kind = "Condense" /\ nodes[n].where_clause # VUnset}

\* whether the heap h and the operands of the object are within the bounds
CondenseFits(h, self) ==
    Len(h) <= MaxCondenseNodes /\ Len(h[self].operands) <= MaxCondenseOperands

\* Condense(condense_op, over, using, where)
NewCondense(condense_op, over_, using_, where_) ==
    \E r \in {Condense(nodes, condense_op, over_, using_, where_)} :
        /\ \A n \in NodeIds : nodes[n].kind # "Condense"
        /\ Len(r.h) <= MaxCondenseNodes
        /\ nodes' = r.h
        /\ last' = Call("Condense", Len(nodes) + 1,
                        <<condense_op, over_, using_, where_>>, r.err, <<>>)

Over(self, iter_var) ==
    \E r \in {over(nodes, self, iter_var)} :
        /\ CondenseFits(r.h, self)
        /\ nodes' = r.h
        /\ last' = Call("over", self, <<iter_var>>, r.err, <<>>)

Using(self, u) ==
    \E r \in {using(nodes, self, u)} :
        /\ CondenseFits(r.h, self)
        /\ nodes' = r.h
        /\ last' = Call("using", self, <<u>>, r.err, <<>>)

Where(self, w) ==
    \E r \in {where(nodes, self, w)} :
        /\ CondenseFits(r.h, self)
        /\ nodes' = r.h
        /\ last' = Call("where", self, <<w>>, r.err, <<>>)

\* the iterators passed to the constructor and to over(): an AxisIter, lists
\* of one and of two of them, and values that are no iterator
OverArgs ==
    LET iters == {VNode(n) : n \in AxisIters}
    IN  iters \cup {VList(<<i>>) : i \in iters}
              \cup {VList(<<i, j>>) : i \in iters, j \in iters}
              \cup {VInt(5), VList(<<>>)}

NextCondense ==
    \/ Len(nodes) < MaxCubes /\ NewDatacube("A")
    \/ \E name \in {"x", "y"} :
          /\ Len(nodes) < MaxCondenseNodes
          /\ Cardinality(AxisIters) < MaxIters
          /\ NewAxisIter(name, "X")
    \/ \E self \in AxisIters : Interval(self, VInt(0), VInt(1))
    \/ \E op \in {VCondenseOp("+"), VNone},
          o \in OverArgs \cup {VNone, VTuple(<<>>)}, u, w \in CoverageArgs \ {VOther} :
            NewCondense(op, o, u, w)
    \/ \E self \in Condenses, iter_var \in OverArgs : Over(self, iter_var)
    \/ \E self \in Condenses, u \in CoverageArgs \ {VOther} : Using(self, u)
    \/ \E self \in Condenses, w \in CoverageArgs \ {VOther} : Where(self, w)
    \/ \E self \in Condenses : StrCall(self)

SpecCondense == Init /\ [][NextCondense]_vars

\* every iterator variable of the Condense or Coverage has its domain set
IterDomainsSet(h, self) ==
    \A i \in 1..Len(h[self].iter_vars) :
        /\ IsAxisIter(h, h[self].iter_vars[i])
        /\ DomainsSet(h[h[self].iter_vars[i].v]) # {}

\* C17: str() of a Condense raises MissingOverClause when it holds no
\* iterator variable, and MissingUsingClause when it holds one and no using
\* expression, whatever else was set and in whatever order; with an iterator
\* and a using expression neither error is raised, and a Condense over a
\* datacube whose iterators have their domains renders, with the where
\* clause exactly when one was set.
C17_CondenseNeedsOverAndUsing ==
    (last.call = "str" /\ nodes[last.self].kind = "Condense") =>
        LET c == nodes[last.self]
        IN  /\ Len(c.iter_vars) = 0 => last.err = "MissingOverClause"
            /\ (Len(c.iter_vars) > 0 /\ IsNone(c.using_clause))
                  => last.err = "MissingUsingClause"
            /\ (Len(c.iter_vars) > 0 /\ ~IsNone(c.using_clause)) =>
                  /\ last.err \notin {"MissingOverClause", "MissingUsingClause"}
                  /\ IterDomainsSet(nodes, last.self) =>
                        /\ last.err = "none"
                        /\ Count(last.txt, " using ") = 1
                        /\ Count(last.txt, " where ")
                             = (IF IsNone(c.where_clause) THEN 0 ELSE 1)

\* str() of a Condense with a where clause and no using raised, and the
\* same object with an iterator and a using would render
C17_Witness ==
    /\ last.call = "str" /\ nodes[last.self].kind = "Condense"
    /\ last.err = "MissingUsingClause"
    /\ ~IsNone(nodes[last.self].where_clause)
    /\ Len(nodes[last.self].iter_vars) = 1
    /\ IterDomainsSet(nodes, last.self)

\* str() of a Condense with an iterator and a using and no where returned
C17_WitnessRendered ==
    /\ last.call = "str" /\ nodes[last.self].kind = "Condense"
    /\ last.err = "none"
    /\ last.txt = <<"for ", "$A", " in (", "A", ")", "\nreturn\n  ", "(condense ", "+",
                    " over ", "$x", " ", "X", "(", "0", " : ", "1", ")",
                    " using ", "$A", ")">>

\* C18: over() with an iterator variable whose name an iterator variable of
\* the Condense already has raises DuplicateIteratorName, and the iterator
\* variables of every Condense have pairwise distinct names, whether they
\* came by the constructor or by over(), singly or in a list.
C18_IteratorNamesDistinct ==
    [][/\ (/\ last'.call = "over"
           /\ \E i \in 1..Len(last'.args[1].v) :
                 /\ last'.args[1].t = "list"
                 /\ nodes[last'.args[1].v[i].v].var_name
                      \in Range(IterNames(nodes, last'.self)))
          => last'.err = "DuplicateIteratorName"
       /\ (last'.call = "over" /\ IsAxisIter(nodes, last'.args[1])
           /\ nodes[last'.args[1].v].var_name \in Range(IterNames(nodes, last'.self)))
          => last'.err = "DuplicateIteratorName"
       /\ \A n \in Condenses' :
             \A i, j \in 1..Len(nodes'[n].iter_vars) :
                 i # j => IterNames(nodes', n)[i] # IterNames(nodes', n)[j]
    ]_vars

-----------------------------------------------------------------------------
(* SpecCoverage: Coverage objects, their iterators and their two values    *)
(* clauses                                                                 *)

\* Coverage.__init__ after super().__init__ left the outcome r: the fields
\* are assigned, and then the two values clauses are compared
CoverageFields(r, self, name, over_, values_clause, value_list_clause) ==
    IF r.err # "none" THEN [r EXCEPT !.h[self].init_raised = TRUE]
    ELSE IF ~IsNone(value_list_clause) /\ ~IsNone(values_clause)
      THEN Fail([r.h EXCEPT ![self].name = name,
                            ![self].iter_vars = IF IsNone(over_) THEN <<>> ELSE over_.v,
                            ![self].values_clause = values_clause,
                            ![self].value_list_clause = value_list_clause,
                            ![self].init_raised = TRUE],
                "ConflictingValuesSpecification")
    ELSE Done([r.h EXCEPT ![self].name = name,
                          ![self].iter_vars = IF IsNone(over_) THEN <<>> ELSE over_.v,
                          ![self].values_clause = values_clause,
                          ![self].value_list_clause = value_list_clause])

\* Coverage.__init__(self, name, over, values_clause, value_list_clause) for
\* a new object; `operands += over` is as in Condense.__init__
Coverage(h, name, over_, values_clause, value_list_clause) ==
    IF IsAxisIter(h, over_)
      THEN Fail(Append(h, [Blank("BinaryOp") EXCEPT !.operator = "+"]), "InvalidOperand")
    ELSE IF over_.t \notin {"None", "list", "tuple"} THEN Fail(h, "TypeError")
    ELSE CoverageFields(NewExpr(h, Blank("Coverage"),
                                <<values_clause>> \o (IF IsNone(over_) THEN <<>> ELSE over_.v)),
                        Len(h) + 1, name, over_, values_clause, value_list_clause)

\* the loop of Coverage.over: each variable is appended and added as an
\* operand
RECURSIVE Coverage_over_each(_, _, _)
Coverage_over_each(h, self, iter_var) ==
    IF iter_var = <<>> THEN Done(h)
    ELSE Coverage_over_each(
             add_operand([h EXCEPT ![self].iter_vars = Append(@, Head(iter_var))],
                         self, Head(iter_var)).h,
             self, Tail(iter_var))

\* Coverage.over(self, iter_var)
Coverage_over(h, self, iter_var) ==
    Coverage_over_each(h, self, IF iter_var.t = "list" THEN iter_var.v ELSE <<iter_var>>)

\* Coverage.values without the test of the value list
values_unchecked(h, self, values_clause) ==
    add_operand([h EXCEPT ![self].values_clause = values_clause], self, values_clause)

\* Coverage.values(self, values_clause)
values(h, self, values_clause) ==
    IF ~IsNone(h[self].value_list_clause)
      THEN Fail(h, "ConflictingValuesSpecification")
    ELSE add_operand([h EXCEPT ![self].values_clause = values_clause],
                     self, values_clause)

\* Coverage.value_list(self, value_list_clause)
value_list(h, self, value_list_clause) ==
    IF ~IsNone(h[self].values_clause)
      THEN Fail(h, "ConflictingValuesSpecification")
    ELSE Done([h EXCEPT ![self].value_list_clause = value_list_clause])

\* the Coverage objects a caller holds: those whose constructor returned
Coverages == {n \in NodeIds : nodes[n].kind = "Coverage" /\ ~nodes[n].init_raised}

\* Coverage(name, over, values_clause, value_list_clause)
NewCoverage(name, over_, values_clause, value_list_clause) ==
    \E r \in {Coverage(nodes, name, over_, values_clause, value_list_clause)} :
        /\ \A n \in NodeIds : nodes[n].kind # "Coverage"
        /\ Len(r.h) <= MaxCondenseNodes
        /\ nodes' = r.h
        /\ last' = Call("Coverage", Len(nodes) + 1,
                        <<VStr(name), over_, values_clause, value_list_clause>>,
                        r.err, <<>>)

CoverageOver(self, iter_var) ==
    \E r \in {Coverage_over(nodes, self, iter_var)} :
        /\ CondenseFits(r.h, self)
        /\ nodes' = r.h
        /\ last' = Call("over", self, <<iter_var>>, r.err, <<>>)

Values(self, values_clause) ==
    \E r \in {values(nodes, self, values_clause)} :
        /\ CondenseFits(r.h, self)
        /\ nodes' = r.h
        /\ last' = Call("values", self, <<values_clause>>, r.err, <<>>)

ValueList(self, value_list_clause) ==
    \E r \in {value_list(nodes, self, value_list_clause)} :
        /\ nodes' = r.h
        /\ last' = Call("value_list", self, <<value_list_clause>>, r.err, <<>>)

\* the iterators passed to the constructor and to over(): an AxisIter and
\* lists of them
CoverageOverArgs ==
    LET iters == {VNode(n) : n \in AxisIters}
    IN  iters \cup {VList(<<i>>) : i \in iters} \cup {VList(<<>>)}

\* the value lists passed: none, an empty list, a list of scalars
ValueListArgs == {VNone, VList(<<>>), VList(<<VInt(1), VInt(2)>>)}

NextCoverage ==
    \/ Len(nodes) < MaxCubes /\ NewDatacube("A")
    \/ /\ Len(nodes) < MaxCondenseNodes
       /\ Cardinality(AxisIters) < MaxIters
       /\ NewAxisIter("x", "X")
    \/ \E self \in AxisIters : Interval(self, VInt(0), VInt(1))
    \/ \E o \in CoverageOverArgs \cup {VNone}, v \in CoverageArgs \ {VOther},
          l \in ValueListArgs : NewCoverage("c", o, v, l)
    \/ \E self \in Coverages, iter_var \in CoverageOverArgs : CoverageOver(self, iter_var)
    \/ \E self \in Coverages, v \in CoverageArgs \ {VOther} : Values(self, v)
    \/ \E self \in Coverages, l \in ValueListArgs : ValueList(self, l)
    \/ \E self \in Coverages : StrCall(self)

SpecCoverage == Init /\ [][NextCoverage]_vars

\* C19: str() of a Coverage raises when it holds no iterator variable, and
\* raises MissingValuesClause when it holds one and neither a values
\* expression nor a value list; giving the second of the two forms when the
\* first is set, by the constructor, values() or value_list(), raises
\* ConflictingValuesSpecification, and no Coverage has both forms set.
C19_CoverageValuesExclusive ==
    [][/\ (last'.call = "str" /\ nodes[last'.self].kind = "Coverage") =>
            LET c == nodes[last'.self]
            IN  /\ Len(c.iter_vars) = 0 => IsWCPSClientException(last'.err)
                /\ (/\ Len(c.iter_vars) > 0
                    /\ IsNone(c.values_clause) /\ IsNone(c.value_list_clause))
                      => last'.err = "MissingValuesClause"
       /\ (last'.call = "values" /\ ~IsNone(nodes[last'.self].value_list_clause))
            => last'.err = "ConflictingValuesSpecification"
       /\ (last'.call = "value_list" /\ ~IsNone(nodes[last'.self].values_clause))
            => last'.err = "ConflictingValuesSpecification"
       /\ (/\ last'.call = "Coverage" /\ last'.args[2].t \in {"None", "list"}
           /\ ~IsNone(last'.args[3]) /\ ~IsNone(last'.args[4]))
            => last'.err = "ConflictingValuesSpecification"
       /\ \A n \in Coverages' :
             IsNone(nodes'[n].values_clause) \/ IsNone(nodes'[n].value_list_clause)
    ]_vars

\* values() was refused on a Coverage that has a value list and an iterator
C19_Witness ==
    /\ last.call = "values" /\ last.err = "ConflictingValuesSpecification"
    /\ ~IsNone(last.args[1])
    /\ ~IsNone(nodes[last.self].value_list_clause)
    /\ IsNone(nodes[last.self].values_clause)
    /\ Len(nodes[last.self].iter_vars) = 1

-----------------------------------------------------------------------------
(* SpecOps: operator and function objects over a datacube and raw scalars, *)
(* built by their constructors and by the reflected operators              *)

\* UnaryOp.__init__(self, op, operator) for a new object
UnaryOp(h, op, operator) ==
    NewExpr(h, [Blank("UnaryOp") EXCEPT !.operator = operator], <<op>>)

\* BinaryOp.__init__ with the two operands in the other order
BinaryOp_swapped(h, op1, op2, operator) ==
    NewExpr(h, [Blank("BinaryOp") EXCEPT !.operator = operator], <<op2, op1>>)

\* BinaryOp.__init__(self, op1, op2, operator) for a new object
BinaryOp(h, op1, op2, operator) ==
    NewExpr(h, [Blank("BinaryOp") EXCEPT !.operator = operator], <<op1, op2>>)

\* UnaryFunc.__init__(self, op, func) for a new object
UnaryFunc(h, op, func) ==
    NewExpr(h, [Blank("UnaryFunc") EXCEPT !.func = func], <<op>>)

\* BinaryFunc.__init__(self, op1, op2, func) for a new object
BinaryFunc(h, op1, op2, func) ==
    NewExpr(h, [Blank("BinaryFunc") EXCEPT !.func = func], <<op1, op2>>)

\* WCPSExpr.__radd__(self, other): Add(other, self)
radd(h, self, other) == BinaryOp(h, other, VNode(self), "+")

\* WCPSExpr.__rsub__(self, other): Sub(other, self)
rsub(h, self, other) == BinaryOp(h, other, VNode(self), "-")

\* a constructor call or a reflected operator that left the outcome r
Made(call, self, args, r) ==
    /\ Len(r.h) <= MaxOpNodes
    /\ nodes' = r.h
    /\ last' = Call(call, self, args, r.err, <<>>)

\* Not(op), Sub(op1, op2) also reached as op1 - op2, Abs(op), Pow(op1, op2)
NewUnaryOp(op) == Made("UnaryOp", Len(nodes) + 1, <<op>>, UnaryOp(nodes, op, "not"))
NewSub(op1, op2) ==
    Made("BinaryOp", Len(nodes) + 1, <<op1, op2>>, BinaryOp(nodes, op1, op2, "-"))
NewUnaryFunc(op) == Made("UnaryFunc", Len(nodes) + 1, <<op>>, UnaryFunc(nodes, op, "abs"))
NewBinaryFunc(op1, op2) ==
    Made("BinaryFunc", Len(nodes) + 1, <<op1, op2>>, BinaryFunc(nodes, op1, op2, "pow"))

\* other + self and other - self for a raw scalar other: the call is
\* recorded with the object made and the arguments (self, other)
RAdd(self, other) ==
    Made("__radd__", Len(nodes) + 1, <<VNode(self), other>>, radd(nodes, self, other))
RSub(self, other) ==
    Made("__rsub__", Len(nodes) + 1, <<VNode(self), other>>, rsub(nodes, self, other))

NextOps ==
    \/ Len(nodes) < MaxCubes /\ NewDatacube("A")
    \/ \E op \in Operands : NewUnaryOp(op)
    \/ \E op1, op2 \in Operands : NewSub(op1, op2)
    \/ \E op \in Operands : NewUnaryFunc(op)
    \/ \E op1, op2 \in Operands : NewBinaryFunc(op1, op2)
    \/ \E self \in NodeIds, other \in Scalars : RAdd(self, other)
    \/ \E self \in NodeIds, other \in Scalars : RSub(self, other)
    \/ \E self \in NodeIds : StrCall(self)

SpecOps == Init /\ [][NextOps]_vars

\* the pieces of a text, joined into one string
RECURSIVE Flat(_)
Flat(txt) == IF txt = <<>> THEN "" ELSE Head(txt) \o Flat(Tail(txt))

\* the text of a rendering after its prologue, if it has one
Body(txt) ==
    IF StartsWithPrologue(txt) THEN SubSeq(txt, PrologueEnd(txt) + 1, Len(txt)) ELSE txt

\* the body of the object n, by the three shapes: (lhs OP rhs), (OP operand)
\* and func(op1[, op2]), with the operands in the order they were given; a
\* datacube is $name and a scalar its literal
RECURSIVE Shape(_, _)
Shape(h, n) ==
    LET self == h[n]
        operand(i) == Shape(h, self.operands[i])
    IN  CASE self.kind = "Datacube" -> "$" \o self.name
          [] self.kind = "Scalar" -> ToString(self.op.v)
          [] self.kind = "BinaryOp" ->
                "(" \o operand(1) \o " " \o self.operator \o " " \o operand(2) \o ")"
          [] self.kind = "UnaryOp" -> "(" \o self.operator \o " " \o operand(1) \o ")"
          [] self.kind = "UnaryFunc" -> self.func \o "(" \o operand(1) \o ")"
          [] self.kind = "BinaryFunc" ->
                self.func \o "(" \o operand(1) \o ", " \o operand(2) \o ")"
          [] OTHER -> "?"

\* the operands a constructor call or a reflected operator was given, in
\* the order of the expression: for other + self, other comes first
Given(c) ==
    IF c.call \in {"__radd__", "__rsub__"} THEN <<c.args[2], c.args[1]>>
    ELSE c.args

\* C20: operator and function objects are syntactic and keep the order of
\* their operands: the object made holds the operands in the order given, a
\* raw scalar on the left of + or - being the left operand, and the text
\* rendered for an object over a datacube is, after the prologue, (lhs OP rhs),
\* (OP operand) or func(op1[, op2]) with each operand's own body in its place.
C20_OperandOrderKept ==
    /\ (/\ last.call \in {"UnaryOp", "BinaryOp", "UnaryFunc", "BinaryFunc",
                          "__radd__", "__rsub__"}
        /\ last.err = "none")
         => LET new == nodes[last.self]
            IN  /\ Len(new.operands) = Len(Given(last))
                /\ \A i \in 1..Len(Given(last)) :
                      IF IsNode(Given(last)[i]) THEN new.operands[i] = Given(last)[i].v
                      ELSE /\ nodes[new.operands[i]].kind = "Scalar"
                           /\ nodes[new.operands[i]].op = Given(last)[i]
    /\ (last.call = "str" /\ last.err = "none")
         => Flat(Body(last.txt)) = Shape(nodes, last.self)

\* 1 - A was made by the reflected operator and, nested in another object,
\* rendered
C20_Witness ==
    /\ last.call = "str" /\ last.err = "none"
    /\ \E n \in NodeIds : Flat(Body(Render(nodes, n).txt)) = "(1 - $A)"
    /\ Flat(Body(last.txt)) \in {"((1 - $A) - $A)", "pow((1 - $A), $A)", "abs((1 - $A))"}

-----------------------------------------------------------------------------
(* C21: the operand graph *)

\* C21: after any sequence of constructor and builder calls no object is
\* its own ancestor: the operand graph has no cycle, so the walk of
\* get_datacube_operands and the recursive rendering end.
C21_OperandGraphAcyclic ==
    \A n \in NodeIds : n \notin Descendants(nodes, n)

-----------------------------------------------------------------------------
(* C22: ownership of operands *)

\* C22: no object is shared by two parents: every object is in the operand
\* list of at most one object, and every operand's parent is the object
\* whose list holds it; adding an object that has a parent moves it from
\* the old parent's list to the new one.
C22_NoNodeSharedByTwoParents ==
    /\ \A c \in NodeIds :
          Cardinality({p \in NodeIds : c \in Range(nodes[p].operands)}) <= 1
    /\ \A p \in NodeIds : \A c \in Range(nodes[p].operands) :
          nodes[c].parent = VNode(p)

-----------------------------------------------------------------------------
(* C23: what a rendering changes *)

\* C23: rendering is read-only: str(), whether it returns or raises, leaves
\* the parent and the operand list of every object as they were, the
\* datacubes included.
C23_RenderReadOnly ==
    [][last'.call = "str" =>
        /\ Len(nodes') = Len(nodes)
        /\ \A n \in NodeIds :
              /\ nodes'[n].parent = nodes[n].parent
              /\ nodes'[n].operands = nodes[n].operands
    ]_vars

-----------------------------------------------------------------------------
(* C24: the body of a rendered Switch *)

\* C24: a Switch that renders emits (switch case C1 return T1 ... default
\* return D): one case/return clause for every case call that was accepted,
\* in call order, the i-th case with the i-th then, and the default last;
\* no accepted case or then is left out.
C24_SwitchRendersEveryBranch ==
    (last.call = "str" /\ nodes[last.self].kind = "Switch" /\ last.err = "none") =>
        LET sw == nodes[last.self]
            text(x) == Fmt(nodes, x, Len(nodes))
            clause(i) == Cat(<<Ok(<<" case ">>), text(sw.case_expr[i]),
                               Ok(<<" return ">>), text(sw.then_expr[i])>>)
        IN  /\ Len(sw.then_expr) = Len(sw.case_expr)
            /\ Body(last.txt)
                 = Cat(<<Ok(<<"(switch">>),
                         Cat([i \in 1..Len(sw.case_expr) |-> clause(i)]),
                         Ok(<<" default return ">>), text(sw.default_expr),
                         Ok(<<")">>)>>).txt

-----------------------------------------------------------------------------
(* C25: the axes of the Reproject refinements *)

\* C25: to_axis_resolutions raises unless every axis has a low value only
\* (no high bound, no CRS), subset_by_axes raises unless every axis has both
\* bounds and no CRS, and a refinement is recorded on the Reproject only
\* when all its axes are valid: a call that raises leaves the refinement
\* and the operands as they were.
C25_RefinementAxesValidated ==
    [][last'.call \in {"to_axis_resolutions", "subset_by_axes"} =>
        LET self == last'.self
            axis == last'.args[1]
            bounds == IF last'.call = "to_axis_resolutions" THEN 1 ELSE 2
            valid == axis.t = "tuple" /\ Len(axis.v) = 1 + bounds
        IN  /\ ~valid => IsWCPSClientException(last'.err)
            /\ ~valid =>
                  /\ nodes'[self].axis_resolutions = nodes[self].axis_resolutions
                  /\ nodes'[self].axis_subsets = nodes[self].axis_subsets
                  /\ nodes'[self].operands = nodes[self].operands
    ]_vars

-----------------------------------------------------------------------------
(* SpecIterStr: AxisIter objects named with and without the sigil, their  *)
(* iteration domains and their rendering                                   *)

\* AxisIter.__init__ that prefixes the name without looking at it
AxisIter_always_prefixed(h, var_name, axis_name) ==
    IF IsNone(var_name) \/ var_name.v = <<>> THEN Fail(h, "EmptyVarName")
    ELSE IF Falsy(axis_name) THEN Fail(h, "EmptyAxisName")
    ELSE Done(Append(h, [Blank("AxisIter") EXCEPT
                           !.var_name = "$" \o Flat(var_name.v),
                           !.axis_name = axis_name.v]))

\* AxisIter.__init__(self, var_name, axis_name) for a new object; var_name
\* is given by its pieces, a leading '$' being a piece of its own.  An
\* object whose constructor raised is referenced by nobody.
AxisIter(h, var_name, axis_name) ==
    IF IsNone(var_name) \/ var_name.v = <<>> THEN Fail(h, "EmptyVarName")
    ELSE IF Falsy(axis_name) THEN Fail(h, "EmptyAxisName")
    ELSE Done(Append(h, [Blank("AxisIter") EXCEPT
                           !.var_name = IF Head(var_name.v) = "$"
                                          THEN Flat(var_name.v)
                                          ELSE "$" \o Flat(var_name.v),
                           !.axis_name = axis_name.v]))

\* AxisIter(var_name, axis_name)
MakeAxisIter(var_name, axis_name) ==
    \E r \in {AxisIter(nodes, var_name, axis_name)} :
        /\ Len(r.h) <= MaxIterNodes
        /\ nodes' = r.h
        /\ last' = Call("AxisIter", Len(nodes) + 1, <<var_name, axis_name>>, r.err, <<>>)

\* the names passed to the constructor: x with and without the sigil, the
\* empty string and None
VarNameArgs == {VWords(<<"x">>), VWords(<<"$", "x">>), VWords(<<>>), VNone}

NextIterStr ==
    \/ Len(nodes) < MaxIterNodes /\ NewDatacube("A")
    \/ \E var_name \in VarNameArgs, axis_name \in {VStr("X"), VStr(""), VNone} :
          MakeAxisIter(var_name, axis_name)
    \/ \E self \in AxisIters, low \in BoundArgs, high \in {VInt(10), VOther} :
          Interval(self, low, high)
    \/ \E self \in AxisIters, c \in CoverageArgs : OfGridAxis(self, c)
    \/ \E self \in AxisIters, c \in CoverageArgs : OfGeoAxis(self, c)
    \/ \E self \in AxisIters : StrCall(self)

SpecIterStr == Init /\ [][NextIterStr]_vars

\* str() of a bound or of a domain node: a datacube is $name, a str is
\* itself, an int its digits
Literal(h, x) ==
    IF IsNode(x) THEN Shape(h, x.v)
    ELSE IF x.t = "str" THEN x.v
    ELSE ToString(x.v)

\* the iteration specification of the one domain that is set
IterSpec(h, it) ==
    CASE DomainsSet(it) = {"interval"} ->
           Literal(h, it.low) \o " : " \o Literal(h, it.high)
      [] DomainsSet(it) = {"grid_axis"} ->
           "imageCrsDomain(" \o Literal(h, it.grid_axis) \o ", " \o it.axis_name \o ")"
      [] DomainsSet(it) = {"geo_axis"} ->
           "domain(" \o Literal(h, it.geo_axis) \o ", " \o it.axis_name \o ")"
      [] OTHER -> "?"

-----------------------------------------------------------------------------
(* SpecRepeat: trees over datacubes of equal and of different names, built *)
(* twice and rendered again and again                                      *)

NextRepeat ==
    \/ \E name \in Range(DatacubeNames) : NewDatacube(name)
    \/ \E op1, op2 \in Operands : NewSub(op1, op2)
    \/ \E self \in NodeIds : StrCall(self)

SpecRepeat == Init /\ [][NextRepeat]_vars

\* the objects n and m are the roots of trees built by the same calls: the
\* same classes with the same attributes, over operands that are so in turn
RECURSIVE SameTree(_, _, _)
SameTree(h, n, m) ==
    /\ h[n].kind = h[m].kind
    /\ h[n].name = h[m].name /\ h[n].op = h[m].op /\ h[n].operator = h[m].operator
    /\ Len(h[n].operands) = Len(h[m].operands)
    /\ \A i \in 1..Len(h[n].operands) : SameTree(h, h[n].operands[i], h[m].operands[i])

-----------------------------------------------------------------------------
(* C28: the one mode of a Scale *)

\* C28: in every state of a Scale at most one of axis_subsets,
\* another_coverage, scale_factor and scale_factors is set, and the operands
\* after the target are exactly those of that one mode from its one
\* successful setter call, whatever setter calls failed or were repeated.
C28_ScaleSingleMode ==
    \A n \in Scales :
        LET sc == nodes[n]
            rest == Tail(sc.operands)
            ids == [i \in 1..Len(rest) |-> VNode(rest[i])]
        IN  /\ Cardinality(ScaleTargets(sc)) <= 1
            /\ CASE ScaleTargets(sc) = {} -> rest = <<>>
                 [] ScaleTargets(sc) = {"axis_subsets"} -> ids = sc.axis_subsets.v
                 [] ScaleTargets(sc) = {"another_coverage"} -> ids = <<sc.another_coverage>>
                 [] ScaleTargets(sc) = {"scale_factor"} ->
                       /\ Len(rest) = 1
                       /\ nodes[rest[1]].kind = "Scalar"
                       /\ nodes[rest[1]].op = sc.scale_factor
                 [] ScaleTargets(sc) = {"scale_factors"} -> ids = sc.scale_factors.v
                 [] OTHER -> FALSE

-----------------------------------------------------------------------------
(* C29: what a call that raises leaves behind *)

\* the builder and setter calls of Switch, Scale, Reproject, AxisIter,
\* Condense and Coverage
BuilderCalls ==
    {"case", "then", "default"} \cup ModeSetters \cup DomainSetters
        \cup {"to_axis_resolutions", "subset_by_axes", "subset_by_coverage_domain",
              "over", "using", "where", "values", "value_list"}

\* the objects of the heap passed in the argument x, alone or in a list
ArgNodes(x) ==
    IF IsNode(x) THEN {x.v}
    ELSE IF x.t \in {"list", "tuple"}
      THEN {x.v[i].v : i \in {j \in 1..Len(x.v) : IsNode(x.v[j])}}
    ELSE {}

\* C29: a call that raises leaves no partial result: when a builder or
\* setter call of Switch, Scale, Reproject, AxisIter, Condense or Coverage
\* raises WCPSClientException, the operands and every configuration field
\* of the receiver are as before the call, and so is the parent of every
\* object passed in.
C29_FailedCallLeavesNoTrace ==
    [][(last'.call \in BuilderCalls /\ IsWCPSClientException(last'.err)) =>
        /\ [nodes'[last'.self] EXCEPT !.parent = VNone]
             = [nodes[last'.self] EXCEPT !.parent = VNone]
        /\ \A i \in 1..Len(last'.args) : \A a \in ArgNodes(last'.args[i]) :
              nodes'[a].parent = nodes[a].parent
    ]_vars

-----------------------------------------------------------------------------
(* SpecPrologue: a Condense over an iterator whose interval bound or      *)
(* domain is a datacube, with a using clause over another datacube        *)

NextPrologue ==
    \/ \E name \in Range(DatacubeNames) :
          Len(nodes) < MaxPrologueCubes /\ NewDatacube(name)
    \/ Cardinality(AxisIters) < MaxPrologueIters /\ NewAxisIter("x", "X")
    \/ \E self \in AxisIters, low \in CoverageArgs \cup {VInt(0)} :
          Interval(self, low, VInt(10))
    \/ \E self \in AxisIters, c \in CoverageArgs : OfGridAxis(self, c)
    \/ \E o \in {VList(<<VNode(n)>>) : n \in AxisIters}, u \in CoverageArgs \ {VOther} :
          NewCondense(VCondenseOp("+"), o, u, VNone)
    \/ \E self \in Condenses, u \in CoverageArgs \ {VOther} : Using(self, u)
    \/ \E self \in Condenses : StrCall(self)

SpecPrologue == Init /\ [][NextPrologue]_vars

\* C30: in the text rendered for a root, every datacube whose variable
\* $name is in the body is declared in the prologue, wherever in the tree
\* the datacube is: in an axis bound, in an interval bound or a domain of
\* an AxisIter, in the values of a Coverage, in a Scale target or in the
\* crop domain of a Reproject.
C30_BodyDatacubesDeclared ==
    (RenderedRoot /\ last.err = "none") =>
        \A name \in Range(DatacubeNames) :
            ("$" \o name) \in Range(Body(last.txt))
                => /\ StartsWithPrologue(last.txt)
                   /\ name \in Range(Declared(last.txt))

====
